---- MODULE Spec2Model ----
(***************************************************************************)
(* Certificate serial numbers of the CSL management system:                *)
(*   backend/utils/certificate_generator.py  generate_serial_number,       *)
(*       validate_serial_number, verify_certificate_authenticity           *)
(*   backend/models/certificate_models.py    Course, Certificate           *)
(* Strings are sequences of one-character strings, so that formatting,     *)
(* splitting and pattern matching are computed character by character.     *)
(***************************************************************************)
EXTENDS Integers, Sequences, FiniteSets, TLC

VARIABLES
    certificates,   \* the rows of table 'certificates'
    current_year,   \* datetime.now().year
    req,            \* per caller: the issuance request in progress
    result,         \* the dict last returned by verify_certificate_authenticity
    validation      \* the last call of validate_serial_number: input and output

vars == <<certificates, current_year, req, result, validation>>

----------------------------------------------------------------------------
(* Bounds of the model *)

\* rows the store may hold
MaxCerts == 2
\* students 1..NumStudents exist
NumStudents == 2
\* years the clock advances past FirstYear
MaxYearsElapsed == 1
\* concurrent callers
NumCallers == 2

FirstYear == 2024
LastYear == FirstYear + MaxYearsElapsed

Students == 1..NumStudents
Callers == 1..NumCallers

\* Python's None is the empty set and a present value x is {x}
None == {}
TheOne(S) == CHOOSE x \in S : TRUE

----------------------------------------------------------------------------
(* Characters and string helpers *)

DigitChars == <<"0", "1", "2", "3", "4", "5", "6", "7", "8", "9">>
AsciiDigits == {DigitChars[i] : i \in 1..10}
UpperLetters == {"A", "B", "C", "D", "E", "F", "G", "H", "I", "J", "K", "L", "M",
                 "N", "O", "P", "Q", "R", "S", "T", "U", "V", "W", "X", "Y", "Z"}
UpperHexLetters == {"A", "B", "C", "D", "E", "F"}

\* A decimal digit outside ASCII (ARABIC-INDIC DIGIT THREE), one character.
OtherDecimalDigits == {"U+0663"}

\* str.upper() on one character, for the letters the model uses
UpperChar(c) ==
    CASE c = "a" -> "A" [] c = "b" -> "B" [] c = "c" -> "C" [] c = "d" -> "D"
      [] c = "e" -> "E" [] c = "f" -> "F" [] c = "s" -> "S" [] c = "w" -> "W"
      [] OTHER -> c

\* str.upper()
upper(s) == [i \in 1..Len(s) |-> UpperChar(s[i])]

\* str(n) for an integer n >= 0
RECURSIVE str(_)
str(n) == IF n < 10 THEN <<DigitChars[n + 1]>>
          ELSE str(n \div 10) \o <<DigitChars[(n % 10) + 1]>>

\* The width of the sequential segment: the 4 of f"{next_sequential:04d}"
PadWidth == 4

RECURSIVE Zeros(_)
Zeros(k) == IF k <= 0 THEN <<>> ELSE <<"0">> \o Zeros(k - 1)

\* f"{n:04d}": zero padding to a minimum width; longer numbers are kept whole
format_04d(n) == Zeros(PadWidth - Len(str(n))) \o str(n)

Hyphen == <<"-">>

\* s.split('-')
RECURSIVE split(_)
split(s) ==
    IF \A i \in 1..Len(s) : s[i] # "-" THEN <<s>>
    ELSE LET k == CHOOSE i \in 1..Len(s) : s[i] = "-" /\ \A j \in 1..(i - 1) : s[j] # "-"
         IN  <<SubSeq(s, 1, k - 1)>> \o split(SubSeq(s, k + 1, Len(s)))

----------------------------------------------------------------------------
(* hashlib.sha256(x.encode()).hexdigest()[:6], tabulated from hashlib for the *)
(* hash inputs "{student_id}-{course_id}-{year}-{sequential}" with           *)
(* student_id 1..4, course_id 1..3, year 2024..2027 and sequential           *)
(* 0001..0006, 9997..10003.                                                  *)

Sha256Table == {
    <<<<"1","-","1","-","2","0","2","4","-","0","0","0","1">>, <<"4","7","3","8","9","5">>>>,
    <<<<"1","-","1","-","2","0","2","4","-","0","0","0","2">>, <<"5","d","a","f","e","0">>>>,
    <<<<"1","-","1","-","2","0","2","4","-","0","0","0","3">>, <<"4","8","8","a","0","9">>>>,
    <<<<"1","-","1","-","2","0","2","4","-","0","0","0","4">>, <<"9","2","6","8","8","2">>>>,
    <<<<"1","-","1","-","2","0","2","4","-","0","0","0","5">>, <<"d","1","8","5","5","9">>>>,
    <<<<"1","-","1","-","2","0","2","4","-","0","0","0","6">>, <<"1","a","a","2","b","1">>>>,
    <<<<"1","-","1","-","2","0","2","4","-","9","9","9","7">>, <<"f","f","5","b","c","1">>>>,
    <<<<"1","-","1","-","2","0","2","4","-","9","9","9","8">>, <<"1","7","8","5","9","1">>>>,
    <<<<"1","-","1","-","2","0","2","4","-","9","9","9","9">>, <<"7","9","2","2","2","6">>>>,
    <<<<"1","-","1","-","2","0","2","4","-","1","0","0","0","0">>, <<"0","3","6","0","a","a">>>>,
    <<<<"1","-","1","-","2","0","2","4","-","1","0","0","0","1">>, <<"5","4","6","8","8","5">>>>,
    <<<<"1","-","1","-","2","0","2","4","-","1","0","0","0","2">>, <<"0","4","9","c","1","d">>>>,
    <<<<"1","-","1","-","2","0","2","4","-","1","0","0","0","3">>, <<"3","9","e","e","5","9">>>>,
    <<<<"1","-","1","-","2","0","2","5","-","0","0","0","1">>, <<"5","8","4","5","7","d">>>>,
    <<<<"1","-","1","-","2","0","2","5","-","0","0","0","2">>, <<"6","f","8","b","3","f">>>>,
    <<<<"1","-","1","-","2","0","2","5","-","0","0","0","3">>, <<"6","2","9","d","a","f">>>>,
    <<<<"1","-","1","-","2","0","2","5","-","0","0","0","4">>, <<"4","d","5","3","6","8">>>>,
    <<<<"1","-","1","-","2","0","2","5","-","0","0","0","5">>, <<"3","3","2","4","4","9">>>>,
    <<<<"1","-","1","-","2","0","2","5","-","0","0","0","6">>, <<"7","b","3","7","1","6">>>>,
    <<<<"1","-","1","-","2","0","2","5","-","9","9","9","7">>, <<"0","e","3","e","f","5">>>>,
    <<<<"1","-","1","-","2","0","2","5","-","9","9","9","8">>, <<"1","1","1","9","d","4">>>>,
    <<<<"1","-","1","-","2","0","2","5","-","9","9","9","9">>, <<"5","0","6","a","8","e">>>>,
    <<<<"1","-","1","-","2","0","2","5","-","1","0","0","0","0">>, <<"e","b","e","e","e","a">>>>,
    <<<<"1","-","1","-","2","0","2","5","-","1","0","0","0","1">>, <<"5","e","d","8","9","f">>>>,
    <<<<"1","-","1","-","2","0","2","5","-","1","0","0","0","2">>, <<"c","b","4","7","7","e">>>>,
    <<<<"1","-","1","-","2","0","2","5","-","1","0","0","0","3">>, <<"5","f","5","8","a","a">>>>,
    <<<<"1","-","1","-","2","0","2","6","-","0","0","0","1">>, <<"4","0","2","6","9","4">>>>,
    <<<<"1","-","1","-","2","0","2","6","-","0","0","0","2">>, <<"9","7","1","6","4","e">>>>,
    <<<<"1","-","1","-","2","0","2","6","-","0","0","0","3">>, <<"7","b","5","7","8","d">>>>,
    <<<<"1","-","1","-","2","0","2","6","-","0","0","0","4">>, <<"f","7","6","9","8","b">>>>,
    <<<<"1","-","1","-","2","0","2","6","-","0","0","0","5">>, <<"7","2","c","b","a","d">>>>,
    <<<<"1","-","1","-","2","0","2","6","-","0","0","0","6">>, <<"2","d","7","3","d","2">>>>,
    <<<<"1","-","1","-","2","0","2","6","-","9","9","9","7">>, <<"e","d","0","5","5","2">>>>,
    <<<<"1","-","1","-","2","0","2","6","-","9","9","9","8">>, <<"d","2","8","9","a","c">>>>,
    <<<<"1","-","1","-","2","0","2","6","-","9","9","9","9">>, <<"8","7","c","c","c","d">>>>,
    <<<<"1","-","1","-","2","0","2","6","-","1","0","0","0","0">>, <<"0","f","9","4","8","b">>>>,
    <<<<"1","-","1","-","2","0","2","6","-","1","0","0","0","1">>, <<"b","9","0","e","a","b">>>>,
    <<<<"1","-","1","-","2","0","2","6","-","1","0","0","0","2">>, <<"1","a","7","1","9","d">>>>,
    <<<<"1","-","1","-","2","0","2","6","-","1","0","0","0","3">>, <<"1","1","6","e","1","b">>>>,
    <<<<"1","-","1","-","2","0","2","7","-","0","0","0","1">>, <<"e","e","0","e","d","f">>>>,
    <<<<"1","-","1","-","2","0","2","7","-","0","0","0","2">>, <<"d","8","6","e","c","3">>>>,
    <<<<"1","-","1","-","2","0","2","7","-","0","0","0","3">>, <<"a","f","3","d","7","b">>>>,
    <<<<"1","-","1","-","2","0","2","7","-","0","0","0","4">>, <<"7","4","3","8","3","e">>>>,
    <<<<"1","-","1","-","2","0","2","7","-","0","0","0","5">>, <<"e","7","d","c","5","5">>>>,
    <<<<"1","-","1","-","2","0","2","7","-","0","0","0","6">>, <<"2","a","f","d","9","5">>>>,
    <<<<"1","-","1","-","2","0","2","7","-","9","9","9","7">>, <<"b","6","9","5","3","d">>>>,
    <<<<"1","-","1","-","2","0","2","7","-","9","9","9","8">>, <<"7","0","5","0","8","1">>>>,
    <<<<"1","-","1","-","2","0","2","7","-","9","9","9","9">>, <<"c","6","f","3","e","0">>>>,
    <<<<"1","-","1","-","2","0","2","7","-","1","0","0","0","0">>, <<"f","e","f","b","5","c">>>>,
    <<<<"1","-","1","-","2","0","2","7","-","1","0","0","0","1">>, <<"1","e","c","2","4","3">>>>,
    <<<<"1","-","1","-","2","0","2","7","-","1","0","0","0","2">>, <<"9","3","5","3","1","0">>>>,
    <<<<"1","-","1","-","2","0","2","7","-","1","0","0","0","3">>, <<"e","7","7","8","e","d">>>>,
    <<<<"1","-","2","-","2","0","2","4","-","0","0","0","1">>, <<"d","c","b","7","6","3">>>>,
    <<<<"1","-","2","-","2","0","2","4","-","0","0","0","2">>, <<"b","a","9","6","5","b">>>>,
    <<<<"1","-","2","-","2","0","2","4","-","0","0","0","3">>, <<"4","3","f","3","0","3">>>>,
    <<<<"1","-","2","-","2","0","2","4","-","0","0","0","4">>, <<"d","a","2","f","d","0">>>>,
    <<<<"1","-","2","-","2","0","2","4","-","0","0","0","5">>, <<"f","6","0","4","f","a">>>>,
    <<<<"1","-","2","-","2","0","2","4","-","0","0","0","6">>, <<"1","3","c","5","b","6">>>>,
    <<<<"1","-","2","-","2","0","2","4","-","9","9","9","7">>, <<"b","9","3","3","1","7">>>>,
    <<<<"1","-","2","-","2","0","2","4","-","9","9","9","8">>, <<"9","6","f","4","5","e">>>>,
    <<<<"1","-","2","-","2","0","2","4","-","9","9","9","9">>, <<"b","5","a","0","5","a">>>>,
    <<<<"1","-","2","-","2","0","2","4","-","1","0","0","0","0">>, <<"4","d","7","3","8","e">>>>,
    <<<<"1","-","2","-","2","0","2","4","-","1","0","0","0","1">>, <<"2","e","b","e","7","c">>>>,
    <<<<"1","-","2","-","2","0","2","4","-","1","0","0","0","2">>, <<"2","1","0","7","c","1">>>>,
    <<<<"1","-","2","-","2","0","2","4","-","1","0","0","0","3">>, <<"8","5","a","6","9","9">>>>,
    <<<<"1","-","2","-","2","0","2","5","-","0","0","0","1">>, <<"4","f","2","6","4","8">>>>,
    <<<<"1","-","2","-","2","0","2","5","-","0","0","0","2">>, <<"6","0","9","0","b","e">>>>,
    <<<<"1","-","2","-","2","0","2","5","-","0","0","0","3">>, <<"f","5","b","b","f","a">>>>,
    <<<<"1","-","2","-","2","0","2","5","-","0","0","0","4">>, <<"5","2","3","9","3","f">>>>,
    <<<<"1","-","2","-","2","0","2","5","-","0","0","0","5">>, <<"1","a","c","b","e","6">>>>,
    <<<<"1","-","2","-","2","0","2","5","-","0","0","0","6">>, <<"9","8","8","9","0","b">>>>,
    <<<<"1","-","2","-","2","0","2","5","-","9","9","9","7">>, <<"c","b","f","f","c","6">>>>,
    <<<<"1","-","2","-","2","0","2","5","-","9","9","9","8">>, <<"3","7","5","9","d","f">>>>,
    <<<<"1","-","2","-","2","0","2","5","-","9","9","9","9">>, <<"6","b","4","4","4","6">>>>,
    <<<<"1","-","2","-","2","0","2","5","-","1","0","0","0","0">>, <<"b","4","c","c","b","3">>>>,
    <<<<"1","-","2","-","2","0","2","5","-","1","0","0","0","1">>, <<"2","3","b","c","6","4">>>>,
    <<<<"1","-","2","-","2","0","2","5","-","1","0","0","0","2">>, <<"9","f","9","5","e","b">>>>,
    <<<<"1","-","2","-","2","0","2","5","-","1","0","0","0","3">>, <<"6","c","f","d","5","0">>>>,
    <<<<"1","-","2","-","2","0","2","6","-","0","0","0","1">>, <<"d","2","2","c","2","b">>>>,
    <<<<"1","-","2","-","2","0","2","6","-","0","0","0","2">>, <<"e","9","8","3","f","8">>>>,
    <<<<"1","-","2","-","2","0","2","6","-","0","0","0","3">>, <<"d","9","6","d","b","d">>>>,
    <<<<"1","-","2","-","2","0","2","6","-","0","0","0","4">>, <<"c","5","d","0","5","3">>>>,
    <<<<"1","-","2","-","2","0","2","6","-","0","0","0","5">>, <<"f","0","2","0","f","1">>>>,
    <<<<"1","-","2","-","2","0","2","6","-","0","0","0","6">>, <<"3","0","a","6","b","9">>>>,
    <<<<"1","-","2","-","2","0","2","6","-","9","9","9","7">>, <<"f","8","9","c","c","e">>>>,
    <<<<"1","-","2","-","2","0","2","6","-","9","9","9","8">>, <<"f","6","8","6","d","2">>>>,
    <<<<"1","-","2","-","2","0","2","6","-","9","9","9","9">>, <<"2","a","f","4","6","f">>>>,
    <<<<"1","-","2","-","2","0","2","6","-","1","0","0","0","0">>, <<"2","a","6","1","5","2">>>>,
    <<<<"1","-","2","-","2","0","2","6","-","1","0","0","0","1">>, <<"a","8","3","2","2","4">>>>,
    <<<<"1","-","2","-","2","0","2","6","-","1","0","0","0","2">>, <<"9","d","8","7","c","0">>>>,
    <<<<"1","-","2","-","2","0","2","6","-","1","0","0","0","3">>, <<"0","2","1","6","b","2">>>>,
    <<<<"1","-","2","-","2","0","2","7","-","0","0","0","1">>, <<"a","8","1","6","6","9">>>>,
    <<<<"1","-","2","-","2","0","2","7","-","0","0","0","2">>, <<"f","6","3","7","e","9">>>>,
    <<<<"1","-","2","-","2","0","2","7","-","0","0","0","3">>, <<"a","f","c","d","3","f">>>>,
    <<<<"1","-","2","-","2","0","2","7","-","0","0","0","4">>, <<"e","f","e","3","0","4">>>>,
    <<<<"1","-","2","-","2","0","2","7","-","0","0","0","5">>, <<"2","c","f","c","a","5">>>>,
    <<<<"1","-","2","-","2","0","2","7","-","0","0","0","6">>, <<"b","8","9","2","0","c">>>>,
    <<<<"1","-","2","-","2","0","2","7","-","9","9","9","7">>, <<"a","8","9","4","4","9">>>>,
    <<<<"1","-","2","-","2","0","2","7","-","9","9","9","8">>, <<"a","8","5","8","8","4">>>>,
    <<<<"1","-","2","-","2","0","2","7","-","9","9","9","9">>, <<"a","0","2","5","6","b">>>>,
    <<<<"1","-","2","-","2","0","2","7","-","1","0","0","0","0">>, <<"0","7","7","d","2","c">>>>,
    <<<<"1","-","2","-","2","0","2","7","-","1","0","0","0","1">>, <<"c","9","3","5","e","1">>>>,
    <<<<"1","-","2","-","2","0","2","7","-","1","0","0","0","2">>, <<"4","2","4","0","3","5">>>>,
    <<<<"1","-","2","-","2","0","2","7","-","1","0","0","0","3">>, <<"2","6","2","6","b","d">>>>,
    <<<<"1","-","3","-","2","0","2","4","-","0","0","0","1">>, <<"9","d","e","d","e","b">>>>,
    <<<<"1","-","3","-","2","0","2","4","-","0","0","0","2">>, <<"b","b","9","3","8","4">>>>,
    <<<<"1","-","3","-","2","0","2","4","-","0","0","0","3">>, <<"6","a","3","0","1","4">>>>,
    <<<<"1","-","3","-","2","0","2","4","-","0","0","0","4">>, <<"d","5","c","b","b","0">>>>,
    <<<<"1","-","3","-","2","0","2","4","-","0","0","0","5">>, <<"e","6","f","2","1","1">>>>,
    <<<<"1","-","3","-","2","0","2","4","-","0","0","0","6">>, <<"c","d","c","c","2","f">>>>,
    <<<<"1","-","3","-","2","0","2","4","-","9","9","9","7">>, <<"a","d","c","8","f","f">>>>,
    <<<<"1","-","3","-","2","0","2","4","-","9","9","9","8">>, <<"0","b","b","8","e","d">>>>,
    <<<<"1","-","3","-","2","0","2","4","-","9","9","9","9">>, <<"2","2","0","f","3","9">>>>,
    <<<<"1","-","3","-","2","0","2","4","-","1","0","0","0","0">>, <<"c","a","8","4","a","3">>>>,
    <<<<"1","-","3","-","2","0","2","4","-","1","0","0","0","1">>, <<"d","f","5","5","c","1">>>>,
    <<<<"1","-","3","-","2","0","2","4","-","1","0","0","0","2">>, <<"1","9","a","c","7","5">>>>,
    <<<<"1","-","3","-","2","0","2","4","-","1","0","0","0","3">>, <<"c","f","b","3","3","a">>>>,
    <<<<"1","-","3","-","2","0","2","5","-","0","0","0","1">>, <<"5","7","7","4","4","1">>>>,
    <<<<"1","-","3","-","2","0","2","5","-","0","0","0","2">>, <<"5","a","c","d","0","0">>>>,
    <<<<"1","-","3","-","2","0","2","5","-","0","0","0","3">>, <<"a","1","3","b","1","7">>>>,
    <<<<"1","-","3","-","2","0","2","5","-","0","0","0","4">>, <<"d","8","3","2","d","c">>>>,
    <<<<"1","-","3","-","2","0","2","5","-","0","0","0","5">>, <<"f","0","2","f","c","0">>>>,
    <<<<"1","-","3","-","2","0","2","5","-","0","0","0","6">>, <<"f","9","e","9","5","b">>>>,
    <<<<"1","-","3","-","2","0","2","5","-","9","9","9","7">>, <<"5","0","c","b","4","6">>>>,
    <<<<"1","-","3","-","2","0","2","5","-","9","9","9","8">>, <<"3","d","9","6","b","3">>>>,
    <<<<"1","-","3","-","2","0","2","5","-","9","9","9","9">>, <<"0","c","1","f","7","d">>>>,
    <<<<"1","-","3","-","2","0","2","5","-","1","0","0","0","0">>, <<"4","d","f","7","5","6">>>>,
    <<<<"1","-","3","-","2","0","2","5","-","1","0","0","0","1">>, <<"2","a","0","f","f","a">>>>,
    <<<<"1","-","3","-","2","0","2","5","-","1","0","0","0","2">>, <<"5","b","4","1","0","5">>>>,
    <<<<"1","-","3","-","2","0","2","5","-","1","0","0","0","3">>, <<"2","5","2","7","4","0">>>>,
    <<<<"1","-","3","-","2","0","2","6","-","0","0","0","1">>, <<"e","d","f","a","c","8">>>>,
    <<<<"1","-","3","-","2","0","2","6","-","0","0","0","2">>, <<"e","1","7","9","e","a">>>>,
    <<<<"1","-","3","-","2","0","2","6","-","0","0","0","3">>, <<"9","f","0","5","c","8">>>>,
    <<<<"1","-","3","-","2","0","2","6","-","0","0","0","4">>, <<"8","4","4","9","c","6">>>>,
    <<<<"1","-","3","-","2","0","2","6","-","0","0","0","5">>, <<"c","5","d","7","1","3">>>>,
    <<<<"1","-","3","-","2","0","2","6","-","0","0","0","6">>, <<"6","0","f","5","1","4">>>>,
    <<<<"1","-","3","-","2","0","2","6","-","9","9","9","7">>, <<"3","9","f","c","4","7">>>>,
    <<<<"1","-","3","-","2","0","2","6","-","9","9","9","8">>, <<"5","a","b","7","9","9">>>>,
    <<<<"1","-","3","-","2","0","2","6","-","9","9","9","9">>, <<"d","a","b","c","6","7">>>>,
    <<<<"1","-","3","-","2","0","2","6","-","1","0","0","0","0">>, <<"e","4","9","b","d","6">>>>,
    <<<<"1","-","3","-","2","0","2","6","-","1","0","0","0","1">>, <<"0","d","e","7","d","8">>>>,
    <<<<"1","-","3","-","2","0","2","6","-","1","0","0","0","2">>, <<"f","e","2","a","5","8">>>>,
    <<<<"1","-","3","-","2","0","2","6","-","1","0","0","0","3">>, <<"d","1","e","7","2","4">>>>,
    <<<<"1","-","3","-","2","0","2","7","-","0","0","0","1">>, <<"3","3","4","a","f","8">>>>,
    <<<<"1","-","3","-","2","0","2","7","-","0","0","0","2">>, <<"6","0","d","3","7","5">>>>,
    <<<<"1","-","3","-","2","0","2","7","-","0","0","0","3">>, <<"4","0","c","0","6","8">>>>,
    <<<<"1","-","3","-","2","0","2","7","-","0","0","0","4">>, <<"8","f","e","c","3","8">>>>,
    <<<<"1","-","3","-","2","0","2","7","-","0","0","0","5">>, <<"3","b","f","a","8","e">>>>,
    <<<<"1","-","3","-","2","0","2","7","-","0","0","0","6">>, <<"1","0","f","3","2","3">>>>,
    <<<<"1","-","3","-","2","0","2","7","-","9","9","9","7">>, <<"2","1","1","4","0","6">>>>,
    <<<<"1","-","3","-","2","0","2","7","-","9","9","9","8">>, <<"5","c","3","0","e","5">>>>,
    <<<<"1","-","3","-","2","0","2","7","-","9","9","9","9">>, <<"6","6","c","8","1","9">>>>,
    <<<<"1","-","3","-","2","0","2","7","-","1","0","0","0","0">>, <<"b","7","3","7","d","c">>>>,
    <<<<"1","-","3","-","2","0","2","7","-","1","0","0","0","1">>, <<"8","2","1","c","5","9">>>>,
    <<<<"1","-","3","-","2","0","2","7","-","1","0","0","0","2">>, <<"6","f","3","8","b","4">>>>,
    <<<<"1","-","3","-","2","0","2","7","-","1","0","0","0","3">>, <<"c","e","2","5","d","4">>>>,
    <<<<"2","-","1","-","2","0","2","4","-","0","0","0","1">>, <<"b","d","2","9","f","6">>>>,
    <<<<"2","-","1","-","2","0","2","4","-","0","0","0","2">>, <<"8","6","d","a","a","1">>>>,
    <<<<"2","-","1","-","2","0","2","4","-","0","0","0","3">>, <<"8","4","5","6","3","8">>>>,
    <<<<"2","-","1","-","2","0","2","4","-","0","0","0","4">>, <<"0","a","5","3","c","9">>>>,
    <<<<"2","-","1","-","2","0","2","4","-","0","0","0","5">>, <<"b","0","b","8","5","d">>>>,
    <<<<"2","-","1","-","2","0","2","4","-","0","0","0","6">>, <<"e","a","8","f","0","1">>>>,
    <<<<"2","-","1","-","2","0","2","4","-","9","9","9","7">>, <<"2","2","e","7","b","0">>>>,
    <<<<"2","-","1","-","2","0","2","4","-","9","9","9","8">>, <<"4","e","2","5","1","b">>>>,
    <<<<"2","-","1","-","2","0","2","4","-","9","9","9","9">>, <<"6","6","2","e","3","e">>>>,
    <<<<"2","-","1","-","2","0","2","4","-","1","0","0","0","0">>, <<"a","9","4","9","5","d">>>>,
    <<<<"2","-","1","-","2","0","2","4","-","1","0","0","0","1">>, <<"b","8","b","7","8","e">>>>,
    <<<<"2","-","1","-","2","0","2","4","-","1","0","0","0","2">>, <<"9","6","d","2","f","b">>>>,
    <<<<"2","-","1","-","2","0","2","4","-","1","0","0","0","3">>, <<"7","a","1","b","b","3">>>>,
    <<<<"2","-","1","-","2","0","2","5","-","0","0","0","1">>, <<"1","3","1","b","6","6">>>>,
    <<<<"2","-","1","-","2","0","2","5","-","0","0","0","2">>, <<"2","0","c","d","e","4">>>>,
    <<<<"2","-","1","-","2","0","2","5","-","0","0","0","3">>, <<"c","3","c","b","d","f">>>>,
    <<<<"2","-","1","-","2","0","2","5","-","0","0","0","4">>, <<"c","c","7","e","1","0">>>>,
    <<<<"2","-","1","-","2","0","2","5","-","0","0","0","5">>, <<"1","0","3","c","1","2">>>>,
    <<<<"2","-","1","-","2","0","2","5","-","0","0","0","6">>, <<"6","5","4","8","f","f">>>>,
    <<<<"2","-","1","-","2","0","2","5","-","9","9","9","7">>, <<"0","c","7","4","6","4">>>>,
    <<<<"2","-","1","-","2","0","2","5","-","9","9","9","8">>, <<"d","e","4","2","f","7">>>>,
    <<<<"2","-","1","-","2","0","2","5","-","9","9","9","9">>, <<"c","a","d","7","2","4">>>>,
    <<<<"2","-","1","-","2","0","2","5","-","1","0","0","0","0">>, <<"4","4","a","8","1","f">>>>,
    <<<<"2","-","1","-","2","0","2","5","-","1","0","0","0","1">>, <<"1","4","4","c","6","e">>>>,
    <<<<"2","-","1","-","2","0","2","5","-","1","0","0","0","2">>, <<"c","1","3","c","2","3">>>>,
    <<<<"2","-","1","-","2","0","2","5","-","1","0","0","0","3">>, <<"3","c","3","3","5","2">>>>,
    <<<<"2","-","1","-","2","0","2","6","-","0","0","0","1">>, <<"5","5","2","4","3","e">>>>,
    <<<<"2","-","1","-","2","0","2","6","-","0","0","0","2">>, <<"1","7","b","f","e","f">>>>,
    <<<<"2","-","1","-","2","0","2","6","-","0","0","0","3">>, <<"2","d","a","a","8","9">>>>,
    <<<<"2","-","1","-","2","0","2","6","-","0","0","0","4">>, <<"2","2","c","d","4","e">>>>,
    <<<<"2","-","1","-","2","0","2","6","-","0","0","0","5">>, <<"a","0","b","3","b","7">>>>,
    <<<<"2","-","1","-","2","0","2","6","-","0","0","0","6">>, <<"3","0","b","5","f","9">>>>,
    <<<<"2","-","1","-","2","0","2","6","-","9","9","9","7">>, <<"e","a","0","b","b","2">>>>,
    <<<<"2","-","1","-","2","0","2","6","-","9","9","9","8">>, <<"d","b","7","8","5","6">>>>,
    <<<<"2","-","1","-","2","0","2","6","-","9","9","9","9">>, <<"4","4","b","4","0","2">>>>,
    <<<<"2","-","1","-","2","0","2","6","-","1","0","0","0","0">>, <<"8","7","8","a","e","a">>>>,
    <<<<"2","-","1","-","2","0","2","6","-","1","0","0","0","1">>, <<"1","f","6","b","1","5">>>>,
    <<<<"2","-","1","-","2","0","2","6","-","1","0","0","0","2">>, <<"f","3","d","4","c","8">>>>,
    <<<<"2","-","1","-","2","0","2","6","-","1","0","0","0","3">>, <<"a","6","d","e","9","b">>>>,
    <<<<"2","-","1","-","2","0","2","7","-","0","0","0","1">>, <<"e","3","c","2","c","5">>>>,
    <<<<"2","-","1","-","2","0","2","7","-","0","0","0","2">>, <<"5","6","2","0","0","c">>>>,
    <<<<"2","-","1","-","2","0","2","7","-","0","0","0","3">>, <<"2","0","6","b","b","e">>>>,
    <<<<"2","-","1","-","2","0","2","7","-","0","0","0","4">>, <<"6","1","4","c","3","9">>>>,
    <<<<"2","-","1","-","2","0","2","7","-","0","0","0","5">>, <<"8","3","8","b","9","c">>>>,
    <<<<"2","-","1","-","2","0","2","7","-","0","0","0","6">>, <<"1","0","d","4","a","6">>>>,
    <<<<"2","-","1","-","2","0","2","7","-","9","9","9","7">>, <<"4","3","0","4","e","b">>>>,
    <<<<"2","-","1","-","2","0","2","7","-","9","9","9","8">>, <<"e","f","9","e","d","d">>>>,
    <<<<"2","-","1","-","2","0","2","7","-","9","9","9","9">>, <<"0","8","d","0","8","5">>>>,
    <<<<"2","-","1","-","2","0","2","7","-","1","0","0","0","0">>, <<"6","c","c","5","e","c">>>>,
    <<<<"2","-","1","-","2","0","2","7","-","1","0","0","0","1">>, <<"f","9","d","a","1","e">>>>,
    <<<<"2","-","1","-","2","0","2","7","-","1","0","0","0","2">>, <<"a","2","c","7","1","d">>>>,
    <<<<"2","-","1","-","2","0","2","7","-","1","0","0","0","3">>, <<"7","f","1","3","4","8">>>>,
    <<<<"2","-","2","-","2","0","2","4","-","0","0","0","1">>, <<"b","8","1","3","7","2">>>>,
    <<<<"2","-","2","-","2","0","2","4","-","0","0","0","2">>, <<"1","2","8","7","9","f">>>>,
    <<<<"2","-","2","-","2","0","2","4","-","0","0","0","3">>, <<"f","d","9","d","1","1">>>>,
    <<<<"2","-","2","-","2","0","2","4","-","0","0","0","4">>, <<"8","d","3","4","6","d">>>>,
    <<<<"2","-","2","-","2","0","2","4","-","0","0","0","5">>, <<"a","1","5","6","a","3">>>>,
    <<<<"2","-","2","-","2","0","2","4","-","0","0","0","6">>, <<"7","2","0","2","6","c">>>>,
    <<<<"2","-","2","-","2","0","2","4","-","9","9","9","7">>, <<"f","4","4","8","6","8">>>>,
    <<<<"2","-","2","-","2","0","2","4","-","9","9","9","8">>, <<"c","e","4","1","0","8">>>>,
    <<<<"2","-","2","-","2","0","2","4","-","9","9","9","9">>, <<"9","9","8","3","7","3">>>>,
    <<<<"2","-","2","-","2","0","2","4","-","1","0","0","0","0">>, <<"a","a","8","2","f","b">>>>,
    <<<<"2","-","2","-","2","0","2","4","-","1","0","0","0","1">>, <<"0","e","a","1","d","2">>>>,
    <<<<"2","-","2","-","2","0","2","4","-","1","0","0","0","2">>, <<"c","2","6","7","d","9">>>>,
    <<<<"2","-","2","-","2","0","2","4","-","1","0","0","0","3">>, <<"f","f","2","b","e","c">>>>,
    <<<<"2","-","2","-","2","0","2","5","-","0","0","0","1">>, <<"3","6","5","8","e","7">>>>,
    <<<<"2","-","2","-","2","0","2","5","-","0","0","0","2">>, <<"f","8","e","3","e","f">>>>,
    <<<<"2","-","2","-","2","0","2","5","-","0","0","0","3">>, <<"3","b","0","1","b","9">>>>,
    <<<<"2","-","2","-","2","0","2","5","-","0","0","0","4">>, <<"3","3","7","b","a","b">>>>,
    <<<<"2","-","2","-","2","0","2","5","-","0","0","0","5">>, <<"f","7","2","e","2","c">>>>,
    <<<<"2","-","2","-","2","0","2","5","-","0","0","0","6">>, <<"5","4","9","b","4","2">>>>,
    <<<<"2","-","2","-","2","0","2","5","-","9","9","9","7">>, <<"a","7","1","9","3","0">>>>,
    <<<<"2","-","2","-","2","0","2","5","-","9","9","9","8">>, <<"b","1","f","b","3","2">>>>,
    <<<<"2","-","2","-","2","0","2","5","-","9","9","9","9">>, <<"5","3","a","7","2","3">>>>,
    <<<<"2","-","2","-","2","0","2","5","-","1","0","0","0","0">>, <<"d","3","3","b","f","c">>>>,
    <<<<"2","-","2","-","2","0","2","5","-","1","0","0","0","1">>, <<"d","c","6","4","0","9">>>>,
    <<<<"2","-","2","-","2","0","2","5","-","1","0","0","0","2">>, <<"a","e","8","e","4","f">>>>,
    <<<<"2","-","2","-","2","0","2","5","-","1","0","0","0","3">>, <<"a","d","5","0","3","a">>>>,
    <<<<"2","-","2","-","2","0","2","6","-","0","0","0","1">>, <<"2","4","c","e","1","3">>>>,
    <<<<"2","-","2","-","2","0","2","6","-","0","0","0","2">>, <<"a","a","a","0","1","c">>>>,
    <<<<"2","-","2","-","2","0","2","6","-","0","0","0","3">>, <<"3","4","8","5","c","9">>>>,
    <<<<"2","-","2","-","2","0","2","6","-","0","0","0","4">>, <<"2","7","2","5","6","a">>>>,
    <<<<"2","-","2","-","2","0","2","6","-","0","0","0","5">>, <<"a","3","d","8","b","8">>>>,
    <<<<"2","-","2","-","2","0","2","6","-","0","0","0","6">>, <<"0","1","3","9","2","a">>>>,
    <<<<"2","-","2","-","2","0","2","6","-","9","9","9","7">>, <<"0","4","9","2","2","4">>>>,
    <<<<"2","-","2","-","2","0","2","6","-","9","9","9","8">>, <<"d","8","f","a","4","e">>>>,
    <<<<"2","-","2","-","2","0","2","6","-","9","9","9","9">>, <<"f","a","c","b","4","9">>>>,
    <<<<"2","-","2","-","2","0","2","6","-","1","0","0","0","0">>, <<"9","3","2","0","1","0">>>>,
    <<<<"2","-","2","-","2","0","2","6","-","1","0","0","0","1">>, <<"8","a","e","c","0","f">>>>,
    <<<<"2","-","2","-","2","0","2","6","-","1","0","0","0","2">>, <<"8","d","8","1","c","6">>>>,
    <<<<"2","-","2","-","2","0","2","6","-","1","0","0","0","3">>, <<"1","2","a","5","d","6">>>>,
    <<<<"2","-","2","-","2","0","2","7","-","0","0","0","1">>, <<"e","d","b","b","c","b">>>>,
    <<<<"2","-","2","-","2","0","2","7","-","0","0","0","2">>, <<"6","1","6","e","d","6">>>>,
    <<<<"2","-","2","-","2","0","2","7","-","0","0","0","3">>, <<"0","4","7","4","3","d">>>>,
    <<<<"2","-","2","-","2","0","2","7","-","0","0","0","4">>, <<"a","1","6","d","6","8">>>>,
    <<<<"2","-","2","-","2","0","2","7","-","0","0","0","5">>, <<"3","5","b","1","1","9">>>>,
    <<<<"2","-","2","-","2","0","2","7","-","0","0","0","6">>, <<"7","6","f","8","5","6">>>>,
    <<<<"2","-","2","-","2","0","2","7","-","9","9","9","7">>, <<"f","6","8","1","4","3">>>>,
    <<<<"2","-","2","-","2","0","2","7","-","9","9","9","8">>, <<"5","1","1","6","1","2">>>>,
    <<<<"2","-","2","-","2","0","2","7","-","9","9","9","9">>, <<"b","4","8","8","3","c">>>>,
    <<<<"2","-","2","-","2","0","2","7","-","1","0","0","0","0">>, <<"5","b","7","3","c","f">>>>,
    <<<<"2","-","2","-","2","0","2","7","-","1","0","0","0","1">>, <<"0","3","4","7","e","4">>>>,
    <<<<"2","-","2","-","2","0","2","7","-","1","0","0","0","2">>, <<"a","1","9","4","c","9">>>>,
    <<<<"2","-","2","-","2","0","2","7","-","1","0","0","0","3">>, <<"a","6","b","6","8","7">>>>,
    <<<<"2","-","3","-","2","0","2","4","-","0","0","0","1">>, <<"6","1","a","1","c","c">>>>,
    <<<<"2","-","3","-","2","0","2","4","-","0","0","0","2">>, <<"1","4","5","f","1","8">>>>,
    <<<<"2","-","3","-","2","0","2","4","-","0","0","0","3">>, <<"a","5","8","2","f","9">>>>,
    <<<<"2","-","3","-","2","0","2","4","-","0","0","0","4">>, <<"d","4","7","9","d","c">>>>,
    <<<<"2","-","3","-","2","0","2","4","-","0","0","0","5">>, <<"b","5","4","1","d","e">>>>,
    <<<<"2","-","3","-","2","0","2","4","-","0","0","0","6">>, <<"f","3","f","0","e","e">>>>,
    <<<<"2","-","3","-","2","0","2","4","-","9","9","9","7">>, <<"8","0","5","9","1","9">>>>,
    <<<<"2","-","3","-","2","0","2","4","-","9","9","9","8">>, <<"f","7","f","d","f","7">>>>,
    <<<<"2","-","3","-","2","0","2","4","-","9","9","9","9">>, <<"b","f","d","6","2","7">>>>,
    <<<<"2","-","3","-","2","0","2","4","-","1","0","0","0","0">>, <<"3","3","d","b","a","0">>>>,
    <<<<"2","-","3","-","2","0","2","4","-","1","0","0","0","1">>, <<"e","5","8","c","8","6">>>>,
    <<<<"2","-","3","-","2","0","2","4","-","1","0","0","0","2">>, <<"0","0","5","c","b","5">>>>,
    <<<<"2","-","3","-","2","0","2","4","-","1","0","0","0","3">>, <<"e","3","a","7","f","f">>>>,
    <<<<"2","-","3","-","2","0","2","5","-","0","0","0","1">>, <<"4","a","1","4","2","f">>>>,
    <<<<"2","-","3","-","2","0","2","5","-","0","0","0","2">>, <<"4","4","c","0","4","9">>>>,
    <<<<"2","-","3","-","2","0","2","5","-","0","0","0","3">>, <<"d","5","3","c","3","1">>>>,
    <<<<"2","-","3","-","2","0","2","5","-","0","0","0","4">>, <<"6","b","9","3","3","4">>>>,
    <<<<"2","-","3","-","2","0","2","5","-","0","0","0","5">>, <<"2","a","6","d","7","f">>>>,
    <<<<"2","-","3","-","2","0","2","5","-","0","0","0","6">>, <<"8","c","9","3","9","6">>>>,
    <<<<"2","-","3","-","2","0","2","5","-","9","9","9","7">>, <<"4","f","5","6","e","7">>>>,
    <<<<"2","-","3","-","2","0","2","5","-","9","9","9","8">>, <<"a","1","f","3","f","f">>>>,
    <<<<"2","-","3","-","2","0","2","5","-","9","9","9","9">>, <<"6","f","1","4","3","7">>>>,
    <<<<"2","-","3","-","2","0","2","5","-","1","0","0","0","0">>, <<"3","6","a","d","8","3">>>>,
    <<<<"2","-","3","-","2","0","2","5","-","1","0","0","0","1">>, <<"9","d","d","4","1","5">>>>,
    <<<<"2","-","3","-","2","0","2","5","-","1","0","0","0","2">>, <<"c","3","c","a","4","e">>>>,
    <<<<"2","-","3","-","2","0","2","5","-","1","0","0","0","3">>, <<"d","b","d","9","f","5">>>>,
    <<<<"2","-","3","-","2","0","2","6","-","0","0","0","1">>, <<"6","1","d","5","6","7">>>>,
    <<<<"2","-","3","-","2","0","2","6","-","0","0","0","2">>, <<"5","f","f","b","b","4">>>>,
    <<<<"2","-","3","-","2","0","2","6","-","0","0","0","3">>, <<"d","3","b","4","2","e">>>>,
    <<<<"2","-","3","-","2","0","2","6","-","0","0","0","4">>, <<"5","2","b","8","0","8">>>>,
    <<<<"2","-","3","-","2","0","2","6","-","0","0","0","5">>, <<"4","e","e","7","5","5">>>>,
    <<<<"2","-","3","-","2","0","2","6","-","0","0","0","6">>, <<"f","3","f","c","b","8">>>>,
    <<<<"2","-","3","-","2","0","2","6","-","9","9","9","7">>, <<"6","1","9","7","2","2">>>>,
    <<<<"2","-","3","-","2","0","2","6","-","9","9","9","8">>, <<"6","5","4","b","b","8">>>>,
    <<<<"2","-","3","-","2","0","2","6","-","9","9","9","9">>, <<"d","d","8","7","6","5">>>>,
    <<<<"2","-","3","-","2","0","2","6","-","1","0","0","0","0">>, <<"8","2","c","9","1","6">>>>,
    <<<<"2","-","3","-","2","0","2","6","-","1","0","0","0","1">>, <<"9","0","f","0","4","f">>>>,
    <<<<"2","-","3","-","2","0","2","6","-","1","0","0","0","2">>, <<"e","b","5","a","4","a">>>>,
    <<<<"2","-","3","-","2","0","2","6","-","1","0","0","0","3">>, <<"3","b","5","7","c","e">>>>,
    <<<<"2","-","3","-","2","0","2","7","-","0","0","0","1">>, <<"0","2","6","5","9","7">>>>,
    <<<<"2","-","3","-","2","0","2","7","-","0","0","0","2">>, <<"e","5","b","3","b","8">>>>,
    <<<<"2","-","3","-","2","0","2","7","-","0","0","0","3">>, <<"2","8","6","8","0","a">>>>,
    <<<<"2","-","3","-","2","0","2","7","-","0","0","0","4">>, <<"e","a","7","2","f","d">>>>,
    <<<<"2","-","3","-","2","0","2","7","-","0","0","0","5">>, <<"a","f","9","8","b","c">>>>,
    <<<<"2","-","3","-","2","0","2","7","-","0","0","0","6">>, <<"3","6","a","e","c","8">>>>,
    <<<<"2","-","3","-","2","0","2","7","-","9","9","9","7">>, <<"7","8","2","4","8","6">>>>,
    <<<<"2","-","3","-","2","0","2","7","-","9","9","9","8">>, <<"2","b","5","e","d","8">>>>,
    <<<<"2","-","3","-","2","0","2","7","-","9","9","9","9">>, <<"b","1","f","7","b","e">>>>,
    <<<<"2","-","3","-","2","0","2","7","-","1","0","0","0","0">>, <<"8","8","c","2","3","4">>>>,
    <<<<"2","-","3","-","2","0","2","7","-","1","0","0","0","1">>, <<"d","b","1","4","9","4">>>>,
    <<<<"2","-","3","-","2","0","2","7","-","1","0","0","0","2">>, <<"c","9","e","c","7","c">>>>,
    <<<<"2","-","3","-","2","0","2","7","-","1","0","0","0","3">>, <<"e","0","c","e","e","e">>>>,
    <<<<"3","-","1","-","2","0","2","4","-","0","0","0","1">>, <<"b","4","f","6","f","b">>>>,
    <<<<"3","-","1","-","2","0","2","4","-","0","0","0","2">>, <<"4","b","d","6","9","4">>>>,
    <<<<"3","-","1","-","2","0","2","4","-","0","0","0","3">>, <<"d","5","c","8","f","6">>>>,
    <<<<"3","-","1","-","2","0","2","4","-","0","0","0","4">>, <<"6","3","2","8","f","c">>>>,
    <<<<"3","-","1","-","2","0","2","4","-","0","0","0","5">>, <<"9","5","a","2","7","3">>>>,
    <<<<"3","-","1","-","2","0","2","4","-","0","0","0","6">>, <<"c","e","0","a","7","7">>>>,
    <<<<"3","-","1","-","2","0","2","4","-","9","9","9","7">>, <<"0","1","8","c","7","0">>>>,
    <<<<"3","-","1","-","2","0","2","4","-","9","9","9","8">>, <<"b","7","4","2","1","7">>>>,
    <<<<"3","-","1","-","2","0","2","4","-","9","9","9","9">>, <<"f","3","d","7","0","b">>>>,
    <<<<"3","-","1","-","2","0","2","4","-","1","0","0","0","0">>, <<"e","e","b","5","e","3">>>>,
    <<<<"3","-","1","-","2","0","2","4","-","1","0","0","0","1">>, <<"1","6","3","e","7","a">>>>,
    <<<<"3","-","1","-","2","0","2","4","-","1","0","0","0","2">>, <<"1","3","6","b","d","f">>>>,
    <<<<"3","-","1","-","2","0","2","4","-","1","0","0","0","3">>, <<"1","5","b","9","9","1">>>>,
    <<<<"3","-","1","-","2","0","2","5","-","0","0","0","1">>, <<"e","b","f","0","c","c">>>>,
    <<<<"3","-","1","-","2","0","2","5","-","0","0","0","2">>, <<"f","c","7","a","e","8">>>>,
    <<<<"3","-","1","-","2","0","2","5","-","0","0","0","3">>, <<"4","8","c","7","3","8">>>>,
    <<<<"3","-","1","-","2","0","2","5","-","0","0","0","4">>, <<"b","b","f","5","0","4">>>>,
    <<<<"3","-","1","-","2","0","2","5","-","0","0","0","5">>, <<"4","f","f","4","e","3">>>>,
    <<<<"3","-","1","-","2","0","2","5","-","0","0","0","6">>, <<"e","5","d","6","6","7">>>>,
    <<<<"3","-","1","-","2","0","2","5","-","9","9","9","7">>, <<"c","b","0","3","0","0">>>>,
    <<<<"3","-","1","-","2","0","2","5","-","9","9","9","8">>, <<"2","8","2","0","c","8">>>>,
    <<<<"3","-","1","-","2","0","2","5","-","9","9","9","9">>, <<"6","c","e","3","d","3">>>>,
    <<<<"3","-","1","-","2","0","2","5","-","1","0","0","0","0">>, <<"4","2","4","1","b","6">>>>,
    <<<<"3","-","1","-","2","0","2","5","-","1","0","0","0","1">>, <<"c","f","9","8","4","1">>>>,
    <<<<"3","-","1","-","2","0","2","5","-","1","0","0","0","2">>, <<"1","4","d","4","e","a">>>>,
    <<<<"3","-","1","-","2","0","2","5","-","1","0","0","0","3">>, <<"f","0","d","1","0","7">>>>,
    <<<<"3","-","1","-","2","0","2","6","-","0","0","0","1">>, <<"b","0","c","9","4","4">>>>,
    <<<<"3","-","1","-","2","0","2","6","-","0","0","0","2">>, <<"9","5","9","2","c","2">>>>,
    <<<<"3","-","1","-","2","0","2","6","-","0","0","0","3">>, <<"f","1","9","e","0","a">>>>,
    <<<<"3","-","1","-","2","0","2","6","-","0","0","0","4">>, <<"a","1","e","a","e","3">>>>,
    <<<<"3","-","1","-","2","0","2","6","-","0","0","0","5">>, <<"a","d","5","9","4","e">>>>,
    <<<<"3","-","1","-","2","0","2","6","-","0","0","0","6">>, <<"c","d","f","2","7","d">>>>,
    <<<<"3","-","1","-","2","0","2","6","-","9","9","9","7">>, <<"1","3","c","2","6","7">>>>,
    <<<<"3","-","1","-","2","0","2","6","-","9","9","9","8">>, <<"3","b","1","a","4","b">>>>,
    <<<<"3","-","1","-","2","0","2","6","-","9","9","9","9">>, <<"2","c","9","d","1","b">>>>,
    <<<<"3","-","1","-","2","0","2","6","-","1","0","0","0","0">>, <<"9","0","e","0","a","5">>>>,
    <<<<"3","-","1","-","2","0","2","6","-","1","0","0","0","1">>, <<"3","f","3","a","0","7">>>>,
    <<<<"3","-","1","-","2","0","2","6","-","1","0","0","0","2">>, <<"5","b","b","e","1","e">>>>,
    <<<<"3","-","1","-","2","0","2","6","-","1","0","0","0","3">>, <<"f","e","3","8","c","1">>>>,
    <<<<"3","-","1","-","2","0","2","7","-","0","0","0","1">>, <<"a","3","4","f","e","e">>>>,
    <<<<"3","-","1","-","2","0","2","7","-","0","0","0","2">>, <<"6","0","d","a","4","0">>>>,
    <<<<"3","-","1","-","2","0","2","7","-","0","0","0","3">>, <<"7","3","6","e","9","2">>>>,
    <<<<"3","-","1","-","2","0","2","7","-","0","0","0","4">>, <<"a","b","0","1","b","e">>>>,
    <<<<"3","-","1","-","2","0","2","7","-","0","0","0","5">>, <<"0","b","b","4","d","f">>>>,
    <<<<"3","-","1","-","2","0","2","7","-","0","0","0","6">>, <<"c","a","5","d","4","c">>>>,
    <<<<"3","-","1","-","2","0","2","7","-","9","9","9","7">>, <<"6","2","e","9","3","f">>>>,
    <<<<"3","-","1","-","2","0","2","7","-","9","9","9","8">>, <<"0","3","b","c","5","4">>>>,
    <<<<"3","-","1","-","2","0","2","7","-","9","9","9","9">>, <<"3","6","3","5","5","2">>>>,
    <<<<"3","-","1","-","2","0","2","7","-","1","0","0","0","0">>, <<"d","3","5","9","d","b">>>>,
    <<<<"3","-","1","-","2","0","2","7","-","1","0","0","0","1">>, <<"1","4","8","7","5","8">>>>,
    <<<<"3","-","1","-","2","0","2","7","-","1","0","0","0","2">>, <<"4","f","1","d","0","a">>>>,
    <<<<"3","-","1","-","2","0","2","7","-","1","0","0","0","3">>, <<"3","0","c","5","e","3">>>>,
    <<<<"3","-","2","-","2","0","2","4","-","0","0","0","1">>, <<"a","d","e","f","3","e">>>>,
    <<<<"3","-","2","-","2","0","2","4","-","0","0","0","2">>, <<"5","3","8","8","5","1">>>>,
    <<<<"3","-","2","-","2","0","2","4","-","0","0","0","3">>, <<"f","f","c","7","5","b">>>>,
    <<<<"3","-","2","-","2","0","2","4","-","0","0","0","4">>, <<"5","5","a","e","0","2">>>>,
    <<<<"3","-","2","-","2","0","2","4","-","0","0","0","5">>, <<"a","c","b","5","8","1">>>>,
    <<<<"3","-","2","-","2","0","2","4","-","0","0","0","6">>, <<"3","f","8","0","7","0">>>>,
    <<<<"3","-","2","-","2","0","2","4","-","9","9","9","7">>, <<"6","6","f","d","d","e">>>>,
    <<<<"3","-","2","-","2","0","2","4","-","9","9","9","8">>, <<"4","b","f","2","c","f">>>>,
    <<<<"3","-","2","-","2","0","2","4","-","9","9","9","9">>, <<"3","7","8","e","8","5">>>>,
    <<<<"3","-","2","-","2","0","2","4","-","1","0","0","0","0">>, <<"1","d","9","f","7","d">>>>,
    <<<<"3","-","2","-","2","0","2","4","-","1","0","0","0","1">>, <<"5","a","a","e","4","0">>>>,
    <<<<"3","-","2","-","2","0","2","4","-","1","0","0","0","2">>, <<"3","5","1","5","0","9">>>>,
    <<<<"3","-","2","-","2","0","2","4","-","1","0","0","0","3">>, <<"9","9","8","3","b","9">>>>,
    <<<<"3","-","2","-","2","0","2","5","-","0","0","0","1">>, <<"2","e","0","b","c","2">>>>,
    <<<<"3","-","2","-","2","0","2","5","-","0","0","0","2">>, <<"c","9","0","2","7","4">>>>,
    <<<<"3","-","2","-","2","0","2","5","-","0","0","0","3">>, <<"a","5","8","9","a","5">>>>,
    <<<<"3","-","2","-","2","0","2","5","-","0","0","0","4">>, <<"f","2","3","8","8","9">>>>,
    <<<<"3","-","2","-","2","0","2","5","-","0","0","0","5">>, <<"3","8","e","8","9","a">>>>,
    <<<<"3","-","2","-","2","0","2","5","-","0","0","0","6">>, <<"7","f","2","3","7","2">>>>,
    <<<<"3","-","2","-","2","0","2","5","-","9","9","9","7">>, <<"2","d","f","7","2","5">>>>,
    <<<<"3","-","2","-","2","0","2","5","-","9","9","9","8">>, <<"2","5","0","c","8","e">>>>,
    <<<<"3","-","2","-","2","0","2","5","-","9","9","9","9">>, <<"4","4","a","9","f","3">>>>,
    <<<<"3","-","2","-","2","0","2","5","-","1","0","0","0","0">>, <<"8","5","9","8","8","0">>>>,
    <<<<"3","-","2","-","2","0","2","5","-","1","0","0","0","1">>, <<"9","5","0","5","0","1">>>>,
    <<<<"3","-","2","-","2","0","2","5","-","1","0","0","0","2">>, <<"1","e","c","b","f","0">>>>,
    <<<<"3","-","2","-","2","0","2","5","-","1","0","0","0","3">>, <<"8","3","7","4","8","0">>>>,
    <<<<"3","-","2","-","2","0","2","6","-","0","0","0","1">>, <<"a","0","2","9","5","a">>>>,
    <<<<"3","-","2","-","2","0","2","6","-","0","0","0","2">>, <<"e","e","8","7","0","d">>>>,
    <<<<"3","-","2","-","2","0","2","6","-","0","0","0","3">>, <<"0","e","4","8","3","0">>>>,
    <<<<"3","-","2","-","2","0","2","6","-","0","0","0","4">>, <<"d","0","e","8","4","9">>>>,
    <<<<"3","-","2","-","2","0","2","6","-","0","0","0","5">>, <<"5","4","e","f","5","7">>>>,
    <<<<"3","-","2","-","2","0","2","6","-","0","0","0","6">>, <<"f","8","c","9","3","7">>>>,
    <<<<"3","-","2","-","2","0","2","6","-","9","9","9","7">>, <<"a","d","8","6","0","7">>>>,
    <<<<"3","-","2","-","2","0","2","6","-","9","9","9","8">>, <<"7","b","6","e","7","f">>>>,
    <<<<"3","-","2","-","2","0","2","6","-","9","9","9","9">>, <<"4","f","3","e","6","7">>>>,
    <<<<"3","-","2","-","2","0","2","6","-","1","0","0","0","0">>, <<"e","1","6","b","5","d">>>>,
    <<<<"3","-","2","-","2","0","2","6","-","1","0","0","0","1">>, <<"9","0","0","7","b","3">>>>,
    <<<<"3","-","2","-","2","0","2","6","-","1","0","0","0","2">>, <<"0","c","d","2","f","2">>>>,
    <<<<"3","-","2","-","2","0","2","6","-","1","0","0","0","3">>, <<"0","9","c","0","0","2">>>>,
    <<<<"3","-","2","-","2","0","2","7","-","0","0","0","1">>, <<"8","f","d","f","a","b">>>>,
    <<<<"3","-","2","-","2","0","2","7","-","0","0","0","2">>, <<"b","1","a","8","e","e">>>>,
    <<<<"3","-","2","-","2","0","2","7","-","0","0","0","3">>, <<"e","3","2","b","6","e">>>>,
    <<<<"3","-","2","-","2","0","2","7","-","0","0","0","4">>, <<"a","5","0","4","c","7">>>>,
    <<<<"3","-","2","-","2","0","2","7","-","0","0","0","5">>, <<"5","5","f","c","2","2">>>>,
    <<<<"3","-","2","-","2","0","2","7","-","0","0","0","6">>, <<"f","6","3","c","b","6">>>>,
    <<<<"3","-","2","-","2","0","2","7","-","9","9","9","7">>, <<"a","0","2","3","e","a">>>>,
    <<<<"3","-","2","-","2","0","2","7","-","9","9","9","8">>, <<"6","2","5","2","4","a">>>>,
    <<<<"3","-","2","-","2","0","2","7","-","9","9","9","9">>, <<"7","1","6","0","f","f">>>>,
    <<<<"3","-","2","-","2","0","2","7","-","1","0","0","0","0">>, <<"2","0","9","2","3","6">>>>,
    <<<<"3","-","2","-","2","0","2","7","-","1","0","0","0","1">>, <<"1","5","3","e","c","3">>>>,
    <<<<"3","-","2","-","2","0","2","7","-","1","0","0","0","2">>, <<"a","4","0","0","2","2">>>>,
    <<<<"3","-","2","-","2","0","2","7","-","1","0","0","0","3">>, <<"a","5","7","6","3","9">>>>,
    <<<<"3","-","3","-","2","0","2","4","-","0","0","0","1">>, <<"7","6","e","7","6","7">>>>,
    <<<<"3","-","3","-","2","0","2","4","-","0","0","0","2">>, <<"8","e","0","2","9","6">>>>,
    <<<<"3","-","3","-","2","0","2","4","-","0","0","0","3">>, <<"9","7","3","4","8","8">>>>,
    <<<<"3","-","3","-","2","0","2","4","-","0","0","0","4">>, <<"3","3","f","b","c","5">>>>,
    <<<<"3","-","3","-","2","0","2","4","-","0","0","0","5">>, <<"8","7","9","4","3","f">>>>,
    <<<<"3","-","3","-","2","0","2","4","-","0","0","0","6">>, <<"7","f","a","a","1","d">>>>,
    <<<<"3","-","3","-","2","0","2","4","-","9","9","9","7">>, <<"d","a","5","7","4","0">>>>,
    <<<<"3","-","3","-","2","0","2","4","-","9","9","9","8">>, <<"0","c","3","d","8","e">>>>,
    <<<<"3","-","3","-","2","0","2","4","-","9","9","9","9">>, <<"1","1","2","a","e","c">>>>,
    <<<<"3","-","3","-","2","0","2","4","-","1","0","0","0","0">>, <<"5","4","0","c","0","2">>>>,
    <<<<"3","-","3","-","2","0","2","4","-","1","0","0","0","1">>, <<"d","7","9","b","f","2">>>>,
    <<<<"3","-","3","-","2","0","2","4","-","1","0","0","0","2">>, <<"7","2","d","5","3","f">>>>,
    <<<<"3","-","3","-","2","0","2","4","-","1","0","0","0","3">>, <<"9","8","3","b","3","6">>>>,
    <<<<"3","-","3","-","2","0","2","5","-","0","0","0","1">>, <<"a","7","7","0","6","b">>>>,
    <<<<"3","-","3","-","2","0","2","5","-","0","0","0","2">>, <<"a","a","a","7","7","8">>>>,
    <<<<"3","-","3","-","2","0","2","5","-","0","0","0","3">>, <<"7","2","a","6","f","d">>>>,
    <<<<"3","-","3","-","2","0","2","5","-","0","0","0","4">>, <<"7","4","d","e","7","2">>>>,
    <<<<"3","-","3","-","2","0","2","5","-","0","0","0","5">>, <<"e","9","b","a","7","6">>>>,
    <<<<"3","-","3","-","2","0","2","5","-","0","0","0","6">>, <<"a","b","8","b","0","2">>>>,
    <<<<"3","-","3","-","2","0","2","5","-","9","9","9","7">>, <<"e","7","7","9","1","f">>>>,
    <<<<"3","-","3","-","2","0","2","5","-","9","9","9","8">>, <<"4","3","2","6","e","2">>>>,
    <<<<"3","-","3","-","2","0","2","5","-","9","9","9","9">>, <<"c","4","1","4","2","9">>>>,
    <<<<"3","-","3","-","2","0","2","5","-","1","0","0","0","0">>, <<"d","a","e","2","0","0">>>>,
    <<<<"3","-","3","-","2","0","2","5","-","1","0","0","0","1">>, <<"c","f","c","3","4","c">>>>,
    <<<<"3","-","3","-","2","0","2","5","-","1","0","0","0","2">>, <<"d","8","c","f","5","5">>>>,
    <<<<"3","-","3","-","2","0","2","5","-","1","0","0","0","3">>, <<"f","6","1","1","f","5">>>>,
    <<<<"3","-","3","-","2","0","2","6","-","0","0","0","1">>, <<"e","1","b","c","0","4">>>>,
    <<<<"3","-","3","-","2","0","2","6","-","0","0","0","2">>, <<"f","e","e","3","0","3">>>>,
    <<<<"3","-","3","-","2","0","2","6","-","0","0","0","3">>, <<"1","c","1","e","b","0">>>>,
    <<<<"3","-","3","-","2","0","2","6","-","0","0","0","4">>, <<"c","1","6","9","d","8">>>>,
    <<<<"3","-","3","-","2","0","2","6","-","0","0","0","5">>, <<"9","c","0","8","0","5">>>>,
    <<<<"3","-","3","-","2","0","2","6","-","0","0","0","6">>, <<"b","f","6","5","e","5">>>>,
    <<<<"3","-","3","-","2","0","2","6","-","9","9","9","7">>, <<"0","6","b","8","1","7">>>>,
    <<<<"3","-","3","-","2","0","2","6","-","9","9","9","8">>, <<"5","d","5","a","0","3">>>>,
    <<<<"3","-","3","-","2","0","2","6","-","9","9","9","9">>, <<"0","b","0","8","e","d">>>>,
    <<<<"3","-","3","-","2","0","2","6","-","1","0","0","0","0">>, <<"a","3","7","4","a","9">>>>,
    <<<<"3","-","3","-","2","0","2","6","-","1","0","0","0","1">>, <<"0","1","e","c","7","2">>>>,
    <<<<"3","-","3","-","2","0","2","6","-","1","0","0","0","2">>, <<"6","0","2","0","0","8">>>>,
    <<<<"3","-","3","-","2","0","2","6","-","1","0","0","0","3">>, <<"e","b","c","8","f","b">>>>,
    <<<<"3","-","3","-","2","0","2","7","-","0","0","0","1">>, <<"7","4","1","1","5","a">>>>,
    <<<<"3","-","3","-","2","0","2","7","-","0","0","0","2">>, <<"9","6","1","e","0","d">>>>,
    <<<<"3","-","3","-","2","0","2","7","-","0","0","0","3">>, <<"f","2","c","1","e","4">>>>,
    <<<<"3","-","3","-","2","0","2","7","-","0","0","0","4">>, <<"c","2","7","a","9","1">>>>,
    <<<<"3","-","3","-","2","0","2","7","-","0","0","0","5">>, <<"8","0","d","1","2","1">>>>,
    <<<<"3","-","3","-","2","0","2","7","-","0","0","0","6">>, <<"7","1","0","d","1","b">>>>,
    <<<<"3","-","3","-","2","0","2","7","-","9","9","9","7">>, <<"9","6","5","8","d","3">>>>,
    <<<<"3","-","3","-","2","0","2","7","-","9","9","9","8">>, <<"9","5","8","7","6","d">>>>,
    <<<<"3","-","3","-","2","0","2","7","-","9","9","9","9">>, <<"6","d","a","f","0","b">>>>,
    <<<<"3","-","3","-","2","0","2","7","-","1","0","0","0","0">>, <<"6","5","c","c","2","0">>>>,
    <<<<"3","-","3","-","2","0","2","7","-","1","0","0","0","1">>, <<"c","3","8","3","c","c">>>>,
    <<<<"3","-","3","-","2","0","2","7","-","1","0","0","0","2">>, <<"a","d","0","7","3","4">>>>,
    <<<<"3","-","3","-","2","0","2","7","-","1","0","0","0","3">>, <<"f","7","9","8","5","1">>>>,
    <<<<"4","-","1","-","2","0","2","4","-","0","0","0","1">>, <<"2","0","d","e","7","9">>>>,
    <<<<"4","-","1","-","2","0","2","4","-","0","0","0","2">>, <<"e","5","c","a","4","c">>>>,
    <<<<"4","-","1","-","2","0","2","4","-","0","0","0","3">>, <<"1","0","0","a","d","f">>>>,
    <<<<"4","-","1","-","2","0","2","4","-","0","0","0","4">>, <<"8","0","7","7","e","f">>>>,
    <<<<"4","-","1","-","2","0","2","4","-","0","0","0","5">>, <<"9","9","b","6","f","9">>>>,
    <<<<"4","-","1","-","2","0","2","4","-","0","0","0","6">>, <<"1","b","9","f","3","5">>>>,
    <<<<"4","-","1","-","2","0","2","4","-","9","9","9","7">>, <<"a","f","f","8","9","6">>>>,
    <<<<"4","-","1","-","2","0","2","4","-","9","9","9","8">>, <<"d","1","d","d","f","3">>>>,
    <<<<"4","-","1","-","2","0","2","4","-","9","9","9","9">>, <<"4","2","0","2","0","c">>>>,
    <<<<"4","-","1","-","2","0","2","4","-","1","0","0","0","0">>, <<"0","a","f","5","d","1">>>>,
    <<<<"4","-","1","-","2","0","2","4","-","1","0","0","0","1">>, <<"3","c","5","1","9","4">>>>,
    <<<<"4","-","1","-","2","0","2","4","-","1","0","0","0","2">>, <<"4","9","2","e","4","6">>>>,
    <<<<"4","-","1","-","2","0","2","4","-","1","0","0","0","3">>, <<"0","2","3","c","5","d">>>>,
    <<<<"4","-","1","-","2","0","2","5","-","0","0","0","1">>, <<"0","1","7","3","b","1">>>>,
    <<<<"4","-","1","-","2","0","2","5","-","0","0","0","2">>, <<"0","a","5","a","6","6">>>>,
    <<<<"4","-","1","-","2","0","2","5","-","0","0","0","3">>, <<"0","6","5","6","6","e">>>>,
    <<<<"4","-","1","-","2","0","2","5","-","0","0","0","4">>, <<"5","e","7","a","0","4">>>>,
    <<<<"4","-","1","-","2","0","2","5","-","0","0","0","5">>, <<"4","d","b","1","d","7">>>>,
    <<<<"4","-","1","-","2","0","2","5","-","0","0","0","6">>, <<"2","6","c","0","6","3">>>>,
    <<<<"4","-","1","-","2","0","2","5","-","9","9","9","7">>, <<"7","a","5","0","1","1">>>>,
    <<<<"4","-","1","-","2","0","2","5","-","9","9","9","8">>, <<"6","a","7","c","3","c">>>>,
    <<<<"4","-","1","-","2","0","2","5","-","9","9","9","9">>, <<"c","1","2","c","b","e">>>>,
    <<<<"4","-","1","-","2","0","2","5","-","1","0","0","0","0">>, <<"7","d","9","b","1","b">>>>,
    <<<<"4","-","1","-","2","0","2","5","-","1","0","0","0","1">>, <<"0","d","d","d","c","0">>>>,
    <<<<"4","-","1","-","2","0","2","5","-","1","0","0","0","2">>, <<"9","f","4","d","5","2">>>>,
    <<<<"4","-","1","-","2","0","2","5","-","1","0","0","0","3">>, <<"b","0","f","c","4","2">>>>,
    <<<<"4","-","1","-","2","0","2","6","-","0","0","0","1">>, <<"9","0","5","4","e","6">>>>,
    <<<<"4","-","1","-","2","0","2","6","-","0","0","0","2">>, <<"4","e","9","e","2","5">>>>,
    <<<<"4","-","1","-","2","0","2","6","-","0","0","0","3">>, <<"d","1","3","f","5","e">>>>,
    <<<<"4","-","1","-","2","0","2","6","-","0","0","0","4">>, <<"2","5","8","a","c","2">>>>,
    <<<<"4","-","1","-","2","0","2","6","-","0","0","0","5">>, <<"a","9","f","a","4","5">>>>,
    <<<<"4","-","1","-","2","0","2","6","-","0","0","0","6">>, <<"1","a","c","1","9","2">>>>,
    <<<<"4","-","1","-","2","0","2","6","-","9","9","9","7">>, <<"8","b","5","8","6","f">>>>,
    <<<<"4","-","1","-","2","0","2","6","-","9","9","9","8">>, <<"d","7","a","4","7","5">>>>,
    <<<<"4","-","1","-","2","0","2","6","-","9","9","9","9">>, <<"1","9","f","3","4","7">>>>,
    <<<<"4","-","1","-","2","0","2","6","-","1","0","0","0","0">>, <<"e","c","c","2","c","9">>>>,
    <<<<"4","-","1","-","2","0","2","6","-","1","0","0","0","1">>, <<"d","1","d","6","e","4">>>>,
    <<<<"4","-","1","-","2","0","2","6","-","1","0","0","0","2">>, <<"5","7","2","2","5","2">>>>,
    <<<<"4","-","1","-","2","0","2","6","-","1","0","0","0","3">>, <<"6","7","d","8","1","b">>>>,
    <<<<"4","-","1","-","2","0","2","7","-","0","0","0","1">>, <<"2","7","a","5","c","f">>>>,
    <<<<"4","-","1","-","2","0","2","7","-","0","0","0","2">>, <<"1","5","7","1","c","7">>>>,
    <<<<"4","-","1","-","2","0","2","7","-","0","0","0","3">>, <<"0","d","2","a","2","6">>>>,
    <<<<"4","-","1","-","2","0","2","7","-","0","0","0","4">>, <<"a","2","8","0","f","9">>>>,
    <<<<"4","-","1","-","2","0","2","7","-","0","0","0","5">>, <<"1","9","6","0","7","5">>>>,
    <<<<"4","-","1","-","2","0","2","7","-","0","0","0","6">>, <<"5","c","e","e","3","9">>>>,
    <<<<"4","-","1","-","2","0","2","7","-","9","9","9","7">>, <<"0","e","0","1","5","0">>>>,
    <<<<"4","-","1","-","2","0","2","7","-","9","9","9","8">>, <<"6","4","5","b","6","9">>>>,
    <<<<"4","-","1","-","2","0","2","7","-","9","9","9","9">>, <<"a","0","f","2","7","6">>>>,
    <<<<"4","-","1","-","2","0","2","7","-","1","0","0","0","0">>, <<"2","6","5","2","2","5">>>>,
    <<<<"4","-","1","-","2","0","2","7","-","1","0","0","0","1">>, <<"0","7","6","5","1","1">>>>,
    <<<<"4","-","1","-","2","0","2","7","-","1","0","0","0","2">>, <<"e","9","b","2","4","0">>>>,
    <<<<"4","-","1","-","2","0","2","7","-","1","0","0","0","3">>, <<"c","8","9","e","3","9">>>>,
    <<<<"4","-","2","-","2","0","2","4","-","0","0","0","1">>, <<"c","c","4","e","e","7">>>>,
    <<<<"4","-","2","-","2","0","2","4","-","0","0","0","2">>, <<"6","a","e","4","d","8">>>>,
    <<<<"4","-","2","-","2","0","2","4","-","0","0","0","3">>, <<"e","a","f","7","e","a">>>>,
    <<<<"4","-","2","-","2","0","2","4","-","0","0","0","4">>, <<"4","d","e","7","7","4">>>>,
    <<<<"4","-","2","-","2","0","2","4","-","0","0","0","5">>, <<"a","6","6","4","b","a">>>>,
    <<<<"4","-","2","-","2","0","2","4","-","0","0","0","6">>, <<"4","f","f","9","b","5">>>>,
    <<<<"4","-","2","-","2","0","2","4","-","9","9","9","7">>, <<"4","d","2","2","3","2">>>>,
    <<<<"4","-","2","-","2","0","2","4","-","9","9","9","8">>, <<"2","c","e","4","e","6">>>>,
    <<<<"4","-","2","-","2","0","2","4","-","9","9","9","9">>, <<"e","2","d","f","a","5">>>>,
    <<<<"4","-","2","-","2","0","2","4","-","1","0","0","0","0">>, <<"e","4","e","0","8","a">>>>,
    <<<<"4","-","2","-","2","0","2","4","-","1","0","0","0","1">>, <<"7","6","9","e","6","2">>>>,
    <<<<"4","-","2","-","2","0","2","4","-","1","0","0","0","2">>, <<"2","3","8","1","f","1">>>>,
    <<<<"4","-","2","-","2","0","2","4","-","1","0","0","0","3">>, <<"8","8","1","e","9","2">>>>,
    <<<<"4","-","2","-","2","0","2","5","-","0","0","0","1">>, <<"f","d","1","1","d","3">>>>,
    <<<<"4","-","2","-","2","0","2","5","-","0","0","0","2">>, <<"9","4","4","f","7","5">>>>,
    <<<<"4","-","2","-","2","0","2","5","-","0","0","0","3">>, <<"8","d","d","0","6","f">>>>,
    <<<<"4","-","2","-","2","0","2","5","-","0","0","0","4">>, <<"7","7","5","6","0","6">>>>,
    <<<<"4","-","2","-","2","0","2","5","-","0","0","0","5">>, <<"6","7","1","c","f","5">>>>,
    <<<<"4","-","2","-","2","0","2","5","-","0","0","0","6">>, <<"9","5","2","d","5","6">>>>,
    <<<<"4","-","2","-","2","0","2","5","-","9","9","9","7">>, <<"3","6","7","a","f","3">>>>,
    <<<<"4","-","2","-","2","0","2","5","-","9","9","9","8">>, <<"c","7","e","a","7","8">>>>,
    <<<<"4","-","2","-","2","0","2","5","-","9","9","9","9">>, <<"8","0","e","8","2","f">>>>,
    <<<<"4","-","2","-","2","0","2","5","-","1","0","0","0","0">>, <<"7","a","0","d","9","8">>>>,
    <<<<"4","-","2","-","2","0","2","5","-","1","0","0","0","1">>, <<"c","c","f","f","6","c">>>>,
    <<<<"4","-","2","-","2","0","2","5","-","1","0","0","0","2">>, <<"4","f","e","d","6","f">>>>,
    <<<<"4","-","2","-","2","0","2","5","-","1","0","0","0","3">>, <<"7","2","f","7","6","c">>>>,
    <<<<"4","-","2","-","2","0","2","6","-","0","0","0","1">>, <<"e","0","e","d","5","d">>>>,
    <<<<"4","-","2","-","2","0","2","6","-","0","0","0","2">>, <<"d","c","d","a","5","5">>>>,
    <<<<"4","-","2","-","2","0","2","6","-","0","0","0","3">>, <<"d","a","6","8","0","4">>>>,
    <<<<"4","-","2","-","2","0","2","6","-","0","0","0","4">>, <<"2","3","7","3","6","d">>>>,
    <<<<"4","-","2","-","2","0","2","6","-","0","0","0","5">>, <<"8","0","b","c","b","d">>>>,
    <<<<"4","-","2","-","2","0","2","6","-","0","0","0","6">>, <<"7","9","e","d","a","9">>>>,
    <<<<"4","-","2","-","2","0","2","6","-","9","9","9","7">>, <<"8","c","c","f","c","b">>>>,
    <<<<"4","-","2","-","2","0","2","6","-","9","9","9","8">>, <<"9","6","4","a","6","d">>>>,
    <<<<"4","-","2","-","2","0","2","6","-","9","9","9","9">>, <<"1","8","7","d","b","e">>>>,
    <<<<"4","-","2","-","2","0","2","6","-","1","0","0","0","0">>, <<"1","f","f","8","0","0">>>>,
    <<<<"4","-","2","-","2","0","2","6","-","1","0","0","0","1">>, <<"a","3","8","e","2","9">>>>,
    <<<<"4","-","2","-","2","0","2","6","-","1","0","0","0","2">>, <<"d","b","5","a","9","0">>>>,
    <<<<"4","-","2","-","2","0","2","6","-","1","0","0","0","3">>, <<"6","7","3","3","d","b">>>>,
    <<<<"4","-","2","-","2","0","2","7","-","0","0","0","1">>, <<"3","b","3","c","f","e">>>>,
    <<<<"4","-","2","-","2","0","2","7","-","0","0","0","2">>, <<"7","e","b","4","c","d">>>>,
    <<<<"4","-","2","-","2","0","2","7","-","0","0","0","3">>, <<"d","9","3","d","8","0">>>>,
    <<<<"4","-","2","-","2","0","2","7","-","0","0","0","4">>, <<"7","8","d","d","2","8">>>>,
    <<<<"4","-","2","-","2","0","2","7","-","0","0","0","5">>, <<"a","4","c","5","8","e">>>>,
    <<<<"4","-","2","-","2","0","2","7","-","0","0","0","6">>, <<"a","a","7","5","6","7">>>>,
    <<<<"4","-","2","-","2","0","2","7","-","9","9","9","7">>, <<"3","e","f","4","9","d">>>>,
    <<<<"4","-","2","-","2","0","2","7","-","9","9","9","8">>, <<"b","f","8","b","d","8">>>>,
    <<<<"4","-","2","-","2","0","2","7","-","9","9","9","9">>, <<"d","8","2","f","e","d">>>>,
    <<<<"4","-","2","-","2","0","2","7","-","1","0","0","0","0">>, <<"3","e","8","a","8","a">>>>,
    <<<<"4","-","2","-","2","0","2","7","-","1","0","0","0","1">>, <<"e","8","2","d","1","a">>>>,
    <<<<"4","-","2","-","2","0","2","7","-","1","0","0","0","2">>, <<"5","e","a","2","2","a">>>>,
    <<<<"4","-","2","-","2","0","2","7","-","1","0","0","0","3">>, <<"4","d","3","6","2","1">>>>,
    <<<<"4","-","3","-","2","0","2","4","-","0","0","0","1">>, <<"c","2","1","9","c","6">>>>,
    <<<<"4","-","3","-","2","0","2","4","-","0","0","0","2">>, <<"d","9","8","5","7","8">>>>,
    <<<<"4","-","3","-","2","0","2","4","-","0","0","0","3">>, <<"e","7","1","0","3","e">>>>,
    <<<<"4","-","3","-","2","0","2","4","-","0","0","0","4">>, <<"7","d","1","f","7","f">>>>,
    <<<<"4","-","3","-","2","0","2","4","-","0","0","0","5">>, <<"d","f","d","2","6","f">>>>,
    <<<<"4","-","3","-","2","0","2","4","-","0","0","0","6">>, <<"6","2","9","6","0","1">>>>,
    <<<<"4","-","3","-","2","0","2","4","-","9","9","9","7">>, <<"d","3","c","a","2","1">>>>,
    <<<<"4","-","3","-","2","0","2","4","-","9","9","9","8">>, <<"7","9","9","e","5","1">>>>,
    <<<<"4","-","3","-","2","0","2","4","-","9","9","9","9">>, <<"c","6","2","e","b","c">>>>,
    <<<<"4","-","3","-","2","0","2","4","-","1","0","0","0","0">>, <<"8","3","1","6","f","b">>>>,
    <<<<"4","-","3","-","2","0","2","4","-","1","0","0","0","1">>, <<"2","9","0","0","f","7">>>>,
    <<<<"4","-","3","-","2","0","2","4","-","1","0","0","0","2">>, <<"8","a","8","4","3","9">>>>,
    <<<<"4","-","3","-","2","0","2","4","-","1","0","0","0","3">>, <<"1","f","e","1","5","9">>>>,
    <<<<"4","-","3","-","2","0","2","5","-","0","0","0","1">>, <<"2","c","a","0","5","e">>>>,
    <<<<"4","-","3","-","2","0","2","5","-","0","0","0","2">>, <<"8","8","9","1","4","9">>>>,
    <<<<"4","-","3","-","2","0","2","5","-","0","0","0","3">>, <<"5","b","9","e","4","a">>>>,
    <<<<"4","-","3","-","2","0","2","5","-","0","0","0","4">>, <<"f","0","0","d","e","4">>>>,
    <<<<"4","-","3","-","2","0","2","5","-","0","0","0","5">>, <<"2","9","0","c","e","0">>>>,
    <<<<"4","-","3","-","2","0","2","5","-","0","0","0","6">>, <<"1","c","9","d","8","3">>>>,
    <<<<"4","-","3","-","2","0","2","5","-","9","9","9","7">>, <<"5","6","4","5","c","3">>>>,
    <<<<"4","-","3","-","2","0","2","5","-","9","9","9","8">>, <<"e","0","9","e","3","5">>>>,
    <<<<"4","-","3","-","2","0","2","5","-","9","9","9","9">>, <<"d","c","f","8","5","b">>>>,
    <<<<"4","-","3","-","2","0","2","5","-","1","0","0","0","0">>, <<"5","3","c","b","d","e">>>>,
    <<<<"4","-","3","-","2","0","2","5","-","1","0","0","0","1">>, <<"4","3","5","2","b","b">>>>,
    <<<<"4","-","3","-","2","0","2","5","-","1","0","0","0","2">>, <<"d","1","2","c","f","a">>>>,
    <<<<"4","-","3","-","2","0","2","5","-","1","0","0","0","3">>, <<"6","9","b","3","9","a">>>>,
    <<<<"4","-","3","-","2","0","2","6","-","0","0","0","1">>, <<"9","5","d","2","e","0">>>>,
    <<<<"4","-","3","-","2","0","2","6","-","0","0","0","2">>, <<"e","6","d","0","c","6">>>>,
    <<<<"4","-","3","-","2","0","2","6","-","0","0","0","3">>, <<"2","d","f","e","b","1">>>>,
    <<<<"4","-","3","-","2","0","2","6","-","0","0","0","4">>, <<"c","9","f","1","b","1">>>>,
    <<<<"4","-","3","-","2","0","2","6","-","0","0","0","5">>, <<"d","f","9","9","9","a">>>>,
    <<<<"4","-","3","-","2","0","2","6","-","0","0","0","6">>, <<"4","3","e","5","6","8">>>>,
    <<<<"4","-","3","-","2","0","2","6","-","9","9","9","7">>, <<"3","5","8","e","5","1">>>>,
    <<<<"4","-","3","-","2","0","2","6","-","9","9","9","8">>, <<"6","b","9","7","8","1">>>>,
    <<<<"4","-","3","-","2","0","2","6","-","9","9","9","9">>, <<"e","4","e","a","2","4">>>>,
    <<<<"4","-","3","-","2","0","2","6","-","1","0","0","0","0">>, <<"3","1","c","f","e","c">>>>,
    <<<<"4","-","3","-","2","0","2","6","-","1","0","0","0","1">>, <<"1","f","9","3","6","d">>>>,
    <<<<"4","-","3","-","2","0","2","6","-","1","0","0","0","2">>, <<"b","b","0","e","a","6">>>>,
    <<<<"4","-","3","-","2","0","2","6","-","1","0","0","0","3">>, <<"d","f","0","3","1","2">>>>,
    <<<<"4","-","3","-","2","0","2","7","-","0","0","0","1">>, <<"2","e","9","1","e","8">>>>,
    <<<<"4","-","3","-","2","0","2","7","-","0","0","0","2">>, <<"9","7","9","0","3","7">>>>,
    <<<<"4","-","3","-","2","0","2","7","-","0","0","0","3">>, <<"6","a","1","7","4","9">>>>,
    <<<<"4","-","3","-","2","0","2","7","-","0","0","0","4">>, <<"8","1","5","a","a","5">>>>,
    <<<<"4","-","3","-","2","0","2","7","-","0","0","0","5">>, <<"1","a","6","4","a","9">>>>,
    <<<<"4","-","3","-","2","0","2","7","-","0","0","0","6">>, <<"b","9","6","5","b","3">>>>,
    <<<<"4","-","3","-","2","0","2","7","-","9","9","9","7">>, <<"1","3","3","9","2","d">>>>,
    <<<<"4","-","3","-","2","0","2","7","-","9","9","9","8">>, <<"d","9","3","9","b","9">>>>,
    <<<<"4","-","3","-","2","0","2","7","-","9","9","9","9">>, <<"d","5","d","3","6","7">>>>,
    <<<<"4","-","3","-","2","0","2","7","-","1","0","0","0","0">>, <<"b","f","9","4","7","f">>>>,
    <<<<"4","-","3","-","2","0","2","7","-","1","0","0","0","1">>, <<"a","9","a","4","4","9">>>>,
    <<<<"4","-","3","-","2","0","2","7","-","1","0","0","0","2">>, <<"3","1","c","3","a","8">>>>,
    <<<<"4","-","3","-","2","0","2","7","-","1","0","0","0","3">>, <<"0","f","3","0","9","3">>>>
}

Sha256HexDigest6 ==
    [x \in {e[1] : e \in Sha256Table} |-> (CHOOSE e \in Sha256Table : e[1] = x)[2]]

\* hashlib.sha256(hash_input.encode()).hexdigest()[:6].upper()
verification_hash_of(hash_input) == upper(Sha256HexDigest6[hash_input])

----------------------------------------------------------------------------
(* Table 'courses': id and the 2-letter course_code (unique, as stored) *)

Courses == {[id |-> 1, course_code |-> <<"W", "D">>],
            [id |-> 2, course_code |-> <<"d", "s">>]}

\* course ids a caller may pass: the stored ones and one that matches no row
NoSuchCourseId == Cardinality(Courses) + 1
CourseIds == {c.id : c \in Courses} \cup {NoSuchCourseId}

\* A lookup that falls back to a placeholder course instead of finding none
get_course_or_placeholder(course_id) ==
    IF \E c \in Courses : c.id = course_id
    THEN {c \in Courses : c.id = course_id}
    ELSE {[id |-> course_id, course_code |-> <<"X", "X">>]}

\* db.query(Course).filter(Course.id == course_id).first()
get_course(course_id) == {c \in Courses : c.id = course_id}

----------------------------------------------------------------------------
(* Table 'certificates' *)

Statuses == {"active", "revoked", "suspended"}

\* A row of table 'certificates' (the columns the serial scheme reads)
Certificate(id, student_id, course_id, serial_number, sequential_part, hash_part, issue_year, status) ==
    [id |-> id, student_id |-> student_id, course_id |-> course_id,
     serial_number |-> serial_number, sequential_part |-> sequential_part,
     hash_part |-> hash_part, issue_year |-> issue_year, status |-> status]

\* A store that enforces no uniqueness of serial_number
NoUniqueConstraint(certs, serial_number) == FALSE

\* Column(String(20), unique=True): an insert of a stored serial is refused
UniqueSerialViolation(certs, serial_number) ==
    \E r \in certs : r.serial_number = serial_number

SetMax(S) == CHOOSE m \in S : \A x \in S : x <= m

\* The maximum taken over the course's rows of every year
max_sequential_any_year(certs, course_id, year) ==
    LET part == {r \in certs : r.course_id = course_id}
    IN  IF part = {} THEN None ELSE {SetMax({r.sequential_part : r \in part})}

\* db.query(func.max(Certificate.sequential_part)).filter(course_id, issue_year).scalar()
max_sequential(certs, course_id, year) ==
    LET part == {r \in certs : r.course_id = course_id /\ r.issue_year = year}
    IN  IF part = {} THEN None ELSE {SetMax({r.sequential_part : r \in part})}

\* A lookup that compares the segments before the verification hash only
get_certificate_by_prefix(certs, serial_number) ==
    LET hit == {r \in certs : /\ Len(r.serial_number) >= 13
                              /\ Len(serial_number) >= 13
                              /\ SubSeq(r.serial_number, 1, 13)
                                     = SubSeq(serial_number, 1, 13)}
    IN  IF hit = {} THEN {} ELSE {CHOOSE r \in hit : TRUE}

\* Certificate.serial_number == serial_number, .first()
get_certificate_by_serial(certs, serial_number) ==
    {r \in certs : r.serial_number = serial_number}

----------------------------------------------------------------------------
(* generate_serial_number *)

\* lines 47-64: the serial built from the partition's maximum
build_serial(student_id, course_id, course_code, year, max_seq) ==
    LET next_sequential == (IF max_seq = None THEN 0 ELSE TheOne(max_seq)) + 1
        sequential_str  == format_04d(next_sequential)
        hash_input      == str(student_id) \o Hyphen \o str(course_id) \o Hyphen
                           \o str(year) \o Hyphen \o sequential_str
        verification_hash == verification_hash_of(hash_input)
        serial_number   == str(year) \o Hyphen \o course_code \o Hyphen
                           \o sequential_str \o Hyphen \o verification_hash
    IN  [raised |-> "", course_id |-> course_id,
         returned |-> {[serial_number |-> serial_number,
                        sequential_part |-> next_sequential,
                        hash_part |-> verification_hash]}]

\* raise ValueError(f"Course with ID {course_id} not found")
NotFoundOutcome(course_id) ==
    [raised |-> "ValueError", course_id |-> course_id, returned |-> None]

generate_serial_number(certs, student_id, course_id, year) ==
    LET course == get_course(course_id)
    IN  IF course = None THEN NotFoundOutcome(course_id)
        ELSE build_serial(student_id, course_id, upper(TheOne(course).course_code), year,
                          max_sequential(certs, course_id, year))

----------------------------------------------------------------------------
(* validate_serial_number *)

\* \d of a str pattern: any Unicode decimal digit
MatchesDigit(c) == c \in AsciiDigits \cup OtherDecimalDigits
\* [A-Z]
MatchesUpper(c) == c \in UpperLetters
\* [A-F0-9]
MatchesHex(c) == c \in UpperHexLetters \cup AsciiDigits

\* \d{4}-[A-Z]{2}-\d{4}-[A-F0-9]{6} consuming exactly s
MatchesBody(s) ==
    /\ Len(s) = 19
    /\ \A i \in 1..4 : MatchesDigit(s[i])
    /\ s[5] = "-"
    /\ \A i \in 6..7 : MatchesUpper(s[i])
    /\ s[8] = "-"
    /\ \A i \in 9..12 : MatchesDigit(s[i])
    /\ s[13] = "-"
    /\ \A i \in 14..19 : MatchesHex(s[i])

\* re.match(r'^...$', s): '$' matches at the end of the string and also just
\* before a newline that ends the string
validate_serial_number(s) ==
    \/ MatchesBody(s)
    \/ /\ Len(s) >= 1
       /\ s[Len(s)] = "\n"
       /\ MatchesBody(SubSeq(s, 1, Len(s) - 1))

----------------------------------------------------------------------------
(* verify_certificate_authenticity *)

ReasonFormat   == "Invalid serial number format"
ReasonNotFound == "Certificate not found in database"
ReasonStatus(status) == "Certificate status is " \o status
ReasonHash     == "Hash verification failed - certificate may be forged"
ReasonValid    == "Certificate is authentic and valid"

\* lines 122-128: the hash recomputed from the stored ids and the serial's segments
expected_hash(certificate, serial_number) ==
    LET parts == split(serial_number)
    IN  verification_hash_of(str(certificate.student_id) \o Hyphen
            \o str(certificate.course_id) \o Hyphen \o parts[1] \o Hyphen \o parts[3])

\* A verification that never looks at certificate.status
verify_ignoring_status(certs, serial_number) ==
    IF ~validate_serial_number(serial_number)
    THEN [is_valid |-> FALSE, reason |-> ReasonFormat, certificate |-> None]
    ELSE LET found == get_certificate_by_serial(certs, serial_number)
             certificate == TheOne(found)
         IN  IF found = None
             THEN [is_valid |-> FALSE, reason |-> ReasonNotFound, certificate |-> None]
             ELSE IF split(serial_number)[4] # expected_hash(certificate, serial_number)
             THEN [is_valid |-> FALSE, reason |-> ReasonHash, certificate |-> found]
             ELSE [is_valid |-> TRUE, reason |-> ReasonValid, certificate |-> found]

verify_certificate_authenticity(certs, serial_number) ==
    IF ~validate_serial_number(serial_number)
    THEN [is_valid |-> FALSE, reason |-> ReasonFormat, certificate |-> None]
    ELSE LET found == get_certificate_by_serial(certs, serial_number)
             certificate == TheOne(found)
         IN  IF found = None
             THEN [is_valid |-> FALSE, reason |-> ReasonNotFound, certificate |-> None]
             ELSE IF certificate.status # "active"
             THEN [is_valid |-> FALSE, reason |-> ReasonStatus(certificate.status),
                   certificate |-> found]
             ELSE IF split(serial_number)[4] # expected_hash(certificate, serial_number)
             THEN [is_valid |-> FALSE, reason |-> ReasonHash, certificate |-> found]
             ELSE [is_valid |-> TRUE, reason |-> ReasonValid, certificate |-> found]

----------------------------------------------------------------------------
(* The issuance state machine: a caller calls generate_serial_number, then   *)
(* inserts the Certificate row built from what it returned.                  *)

\* A caller between requests; outcome is how its last request ended, and
\* course_id the course named by the error it got, if any
Idle(outcome, course_id) ==
    [pc |-> "idle", outcome |-> outcome, student_id |-> 0,
     course_id |-> course_id, year |-> 0, returned |-> None]

NoResult == [serial_number |-> <<>>, returned |-> None]
NoValidation == [serial_number |-> <<>>, returned |-> None]

Pending == {p \in Callers : req[p].pc = "generated"}

\* id = Column(Integer, primary_key=True, autoincrement=True)
next_id(certs) == (IF certs = {} THEN 0 ELSE SetMax({r.id : r \in certs})) + 1

\* The store before any issuance
Init ==
    /\ certificates = {}
    /\ current_year = FirstYear
    /\ req = [p \in Callers |-> Idle("none", 0)]
    /\ result = NoResult
    /\ validation = NoValidation

\* datetime.now().year moves on
NewYear ==
    /\ current_year < LastYear
    /\ current_year' = current_year + 1
    /\ UNCHANGED <<certificates, req, result, validation>>

\* Caller p calls generate_serial_number(db, student_id, course_id)
Generate(p, student_id, course_id) ==
    /\ req[p].pc = "idle"
    /\ Cardinality(certificates) + Cardinality(Pending) < MaxCerts
    /\ LET out == generate_serial_number(certificates, student_id, course_id,
                                         current_year)
       IN  req' = [req EXCEPT ![p] =
                IF out.raised # "" THEN Idle(out.raised, out.course_id)
                ELSE [pc |-> "generated", outcome |-> "returned",
                      student_id |-> student_id, course_id |-> course_id,
                      year |-> current_year, returned |-> out.returned]]
    /\ UNCHANGED <<certificates, current_year, result, validation>>

\* The row caller p persists: the returned values, issue_year = the year read,
\* status by its column default
row_of(certs, r) ==
    LET t == TheOne(r.returned)
    IN  Certificate(next_id(certs), r.student_id, r.course_id, t.serial_number,
                    t.sequential_part, t.hash_part, r.year, "active")

\* Caller p inserts its row; the unique constraint on serial_number refuses a
\* stored serial (IntegrityError) and the row is not written
Insert(p) ==
    /\ req[p].pc = "generated"
    /\ LET row == row_of(certificates, req[p])
       IN  IF UniqueSerialViolation(certificates, row.serial_number)
           THEN /\ certificates' = certificates
                /\ req' = [req EXCEPT ![p] = Idle("IntegrityError", 0)]
           ELSE /\ certificates' = certificates \cup {row}
                /\ req' = [req EXCEPT ![p] = Idle("none", 0)]
    /\ UNCHANGED <<current_year, result, validation>>

\* A certificate's status changes (revocation, suspension, reinstatement)
SetStatus(r, status) ==
    /\ r \in certificates
    /\ status # r.status
    /\ certificates' = (certificates \ {r}) \cup {[r EXCEPT !.status = status]}
    /\ UNCHANGED <<current_year, req, result, validation>>

\* A caller calls verify_certificate_authenticity(db, serial_number)
Verify(serial_number) ==
    /\ result' = [serial_number |-> serial_number,
                  returned |-> {verify_certificate_authenticity(certificates,
                                                                serial_number)}]
    /\ UNCHANGED <<certificates, current_year, req, validation>>

\* A caller calls validate_serial_number(serial_number)
Validate(serial_number) ==
    /\ validation' = [serial_number |-> serial_number,
                      returned |-> {validate_serial_number(serial_number)}]
    /\ UNCHANGED <<certificates, current_year, req, result>>

StoredSerials == {r.serial_number : r \in certificates}

----------------------------------------------------------------------------
(* Issuance by concurrent callers, from the empty store *)

Next ==
    \/ NewYear
    \/ \E p \in Callers, s \in Students, c \in CourseIds : Generate(p, s, c)
    \/ \E p \in Callers : Insert(p)

Spec == Init /\ [][Next]_vars

(* Issuance one request at a time: a call starts only when no other caller   *)
(* holds a serial it has not inserted yet                                    *)

NextSerial ==
    \/ NewYear
    \/ \E p \in Callers, s \in Students, c \in CourseIds :
           Pending = {} /\ Generate(p, s, c)
    \/ \E p \in Callers : Insert(p)

SpecSerial == Init /\ [][NextSerial]_vars

----------------------------------------------------------------------------
(* Properties of issuance *)

Partition(course_id, year) ==
    {r \in certificates : r.course_id = course_id /\ r.issue_year = year}

Years == FirstYear..LastYear
ExistingCourseIds == {c.id : c \in Courses}

\* C1: no two stored certificates of the same (course_id, issue_year) have the
\* same sequential_part, under any interleaving of issuance requests.
C1_SequentialUniqueInPartition ==
    \A r1 \in certificates, r2 \in certificates :
        (r1 # r2 /\ r1.course_id = r2.course_id /\ r1.issue_year = r2.issue_year)
            => r1.sequential_part # r2.sequential_part

\* C2: no two stored certificates have the same serial_number.
C2_SerialGloballyUnique ==
    \A r1 \in certificates, r2 \in certificates :
        r1 # r2 => r1.serial_number # r2.serial_number

\* Two callers were handed the same serial; one row holds it and the other
\* caller's insert was refused.
C2_Witness ==
    /\ \E p \in Callers : req[p].outcome = "IntegrityError"
    /\ Cardinality(certificates) >= 2

\* C3: with requests run one at a time, the rows of each (course_id, year)
\* partition carry exactly the sequence numbers 1..N, N the number of rows, and
\* a call that has returned holds the next one, N + 1.
C3_SerialIssuanceCountsFromOne ==
    /\ \A c \in ExistingCourseIds, y \in Years :
           {r.sequential_part : r \in Partition(c, y)}
               = 1..Cardinality(Partition(c, y))
    /\ \A p \in Pending :
           TheOne(req[p].returned).sequential_part
               = Cardinality(Partition(req[p].course_id, req[p].year)) + 1

\* A partition holds two rows, issued one after the other.
C3_Witness ==
    \E c \in ExistingCourseIds, y \in Years :
        /\ Cardinality(Partition(c, y)) = 2
        /\ {r.sequential_part : r \in Partition(c, y)} = {1, 2}

\* C8: generate_serial_number with a course_id that matches no course raises
\* the not-found error: the caller gets no triple and the store is unchanged.
\* (An idle caller's request changes only by a call of generate_serial_number,
\* and the changed request names the course_id of that call.)
C8_UnknownCourseRaises ==
    [][\A p \in Callers :
          (/\ req[p].pc = "idle"
           /\ req'[p] # req[p]
           /\ req'[p].course_id \notin ExistingCourseIds)
              => /\ certificates' = certificates
                 /\ req'[p].pc = "idle"
                 /\ req'[p].outcome = "ValueError"
                 /\ req'[p].returned = None]_vars

\* A call with an unknown course has ended in the error.
C8_Witness ==
    \E p \in Callers : req[p].pc = "idle" /\ req[p].outcome = "ValueError"


----------------------------------------------------------------------------
(* Issuance in a partition that has used up the four-digit sequence numbers: *)
(* the store holds the row of its latest issuance, sequence 10^4 - 1 (the    *)
(* earlier rows of the partition are read by neither func.max nor the serial *)
(* lookup and are left out).                                                 *)

\* The row a caller persists for what build_serial returns
issued_row(id, student_id, course_id, year, max_seq, status) ==
    LET t == TheOne(build_serial(student_id, course_id,
                        upper(TheOne(get_course(course_id)).course_code),
                        year, max_seq).returned)
    IN  Certificate(id, student_id, course_id, t.serial_number, t.sequential_part,
                    t.hash_part, year, status)

LastFourDigit == (10 ^ PadWidth) - 1

InitNearLimit ==
    /\ certificates = {issued_row(LastFourDigit, 1, 1, FirstYear,
                                  {LastFourDigit - 1}, "active")}
    /\ current_year = FirstYear
    /\ req = [p \in Callers |-> Idle("none", 0)]
    /\ result = NoResult
    /\ validation = NoValidation

NextNearLimit ==
    \/ NewYear
    \/ \E p \in Callers, s \in Students, c \in CourseIds : Generate(p, s, c)
    \/ \E p \in Callers : Insert(p)
    \/ \E s \in StoredSerials : Verify(s)

SpecNearLimit == InitNearLimit /\ [][NextNearLimit]_vars

\* The format of the docstrings, YYYY-CC-NNNN-VVVVVV: 4 digits, 2 uppercase
\* Latin letters, 4 digits, 6 characters of 0-9A-F, hyphens between; nothing
\* before or after. (These are 19 characters.)
HasSerialShape(s) ==
    /\ Len(s) = 19
    /\ \A i \in {1, 2, 3, 4, 9, 10, 11, 12} : s[i] \in AsciiDigits
    /\ \A i \in {5, 8, 13} : s[i] = "-"
    /\ \A i \in {6, 7} : s[i] \in UpperLetters
    /\ \A i \in 14..19 : s[i] \in AsciiDigits \cup UpperHexLetters

\* C4: the serial generate_serial_number returned, inserted as an active
\* certificate, verifies: is_valid = true, with that certificate.
C4_IssuedActiveSerialVerifies ==
    \A r \in certificates :
        (r.status = "active" /\ result.serial_number = r.serial_number)
            => /\ TheOne(result.returned).is_valid
               /\ TheOne(result.returned).certificate = {r}

\* C7: every serial generate_serial_number returns is accepted by
\* validate_serial_number, whatever the maximum of the partition.
C7_GeneratedSerialValidates ==
    \A p \in Pending :
        validate_serial_number(TheOne(req[p].returned).serial_number)

----------------------------------------------------------------------------
(* Verification over stores that also hold rows generate_serial_number did   *)
(* not produce: the schema accepts any serial of up to 20 characters, and    *)
(* telling such rows apart is what the verification hash is for.             *)

\* r with one character of its serial replaced
Alter(s, pos, ch) == [s EXCEPT ![pos] = ch]

ChecksumPositions == 14..19
TamperChars == {"0", "F", "G", "f"}

GenuineA == issued_row(1, 1, 1, FirstYear, None, "active")
GenuineB == issued_row(2, 2, 2, FirstYear, None, "active")
\* a copy of GenuineA's certificate with one checksum character changed
ForgedCopy ==
    LET s == GenuineA.serial_number
    IN  [GenuineA EXCEPT !.id = 3,
                         !.serial_number = Alter(s, 14, IF s[14] = "0" THEN "F" ELSE "0"),
                         !.hash_part = SubSeq(Alter(s, 14, IF s[14] = "0" THEN "F" ELSE "0"), 14, 19)]
\* a certificate re-assigned to another student after issuance
Reassigned == [issued_row(4, 1, 1, FirstYear, {1}, "active") EXCEPT !.student_id = 2]
\* the row of the issuance after sequence 10^4 - 1
Overflowed == issued_row(5, 1, 1, FirstYear, {LastFourDigit}, "active")
\* a serial stored with the line break it was read with
WithLineBreak ==
    LET r == issued_row(6, 1, 1, FirstYear, {2}, "active")
    IN  [r EXCEPT !.serial_number = @ \o <<"\n">>]

VerifyRows == {GenuineA, GenuineB, ForgedCopy, Reassigned, Overflowed, WithLineBreak}

VerifyStores == {S \in SUBSET VerifyRows : Cardinality(S) <= MaxCerts}

\* The serials a caller asks about: the stored ones, their checksum segments
\* altered in one place, and the stored ones with a line break appended
VerifyProbes(certs) ==
    LET stored == {r.serial_number : r \in certs}
    IN  stored
        \cup {Alter(s, pos, ch) : s \in {x \in stored : Len(x) >= 19},
                                  pos \in ChecksumPositions, ch \in TamperChars}
        \cup {s \o <<"\n">> : s \in {x \in stored : Len(x) <= 19}}
        \cup {GenuineA.serial_number}

InitVerify ==
    /\ certificates \in VerifyStores
    /\ current_year = FirstYear
    /\ req = [p \in Callers |-> Idle("none", 0)]
    /\ result = NoResult
    /\ validation = NoValidation

NextVerify ==
    \/ \E r \in certificates, st \in Statuses : SetStatus(r, st)
    \/ \E s \in VerifyProbes(certificates) : Verify(s)

SpecVerify == InitVerify /\ [][NextVerify]_vars

\* The checksum segment of a stored row's serial is the hash of its fields
ChecksumCorrect(r) ==
    split(r.serial_number)[4] = expected_hash(r, r.serial_number)

Verdict(is_valid, reason, certificate) ==
    [is_valid |-> is_valid, reason |-> reason, certificate |-> certificate]

\* The serials of stored active certificates that verify
ValidSerials ==
    {s \in StoredSerials : verify_certificate_authenticity(certificates, s).is_valid}

\* C5 as claimed: verifying a valid serial with one checksum character replaced
\* by a different one is rejected with the reason "hash verification failed".
C5_TamperedFailsHashCheck ==
    [][(/\ result' # result
        /\ \E s \in ValidSerials, pos \in ChecksumPositions, ch \in TamperChars :
               ch # s[pos] /\ result'.serial_number = Alter(s, pos, ch))
          => /\ ~TheOne(result'.returned).is_valid
             /\ TheOne(result'.returned).reason = ReasonHash]_vars

\* C5, amended: a valid serial with one checksum character replaced by a
\* different one, when no stored certificate carries the altered serial, is
\* rejected without a certificate: as an invalid format when the new character
\* is outside 0-9A-F, and as not found otherwise.
C5_TamperedIsUnknownOrMalformed ==
    \A s \in ValidSerials, pos \in ChecksumPositions, ch \in TamperChars :
        (ch # s[pos] /\ Alter(s, pos, ch) \notin StoredSerials) =>
            verify_certificate_authenticity(certificates, Alter(s, pos, ch))
                = Verdict(FALSE,
                          IF ch \in AsciiDigits \cup UpperHexLetters
                          THEN "Certificate not found in database"
                          ELSE "Invalid serial number format",
                          None)

\* An altered copy of a valid stored serial has been verified and was not found.
C5_Witness ==
    \E s \in ValidSerials, pos \in ChecksumPositions, ch \in TamperChars :
        /\ ch # s[pos]
        /\ result.serial_number = Alter(s, pos, ch)
        /\ result.returned = {Verdict(FALSE, "Certificate not found in database", None)}

\* C6: a stored certificate that is revoked or suspended, its serial well-formed
\* and its checksum correct, fails verification with the reason naming its
\* status and with the certificate in the result.
C6_RevokedOrSuspendedFails ==
    \A r \in certificates :
        (r.status \in {"revoked", "suspended"} /\ HasSerialShape(r.serial_number)
            /\ ChecksumCorrect(r))
        => verify_certificate_authenticity(certificates, r.serial_number)
               = Verdict(FALSE,
                         IF r.status = "revoked" THEN "Certificate status is revoked"
                         ELSE "Certificate status is suspended",
                         {r})

\* A certificate that verified as valid was then revoked; its serial still is
\* the one last verified.
C6_Witness ==
    \E r \in certificates :
        /\ r.status = "revoked"
        /\ HasSerialShape(r.serial_number) /\ ChecksumCorrect(r)
        /\ result.serial_number = r.serial_number
        /\ result.returned = {Verdict(TRUE, ReasonValid, {[r EXCEPT !.status = "active"]})}

\* What C9 says verify returns for serial s: the first failing check of format,
\* lookup, status, checksum decides
C9_Expected(s) ==
    LET found == {r \in certificates : r.serial_number = s}
        r == TheOne(found)
    IN  IF ~HasSerialShape(s) THEN Verdict(FALSE, ReasonFormat, None)
        ELSE IF found = {} THEN Verdict(FALSE, ReasonNotFound, None)
        ELSE IF r.status # "active" THEN Verdict(FALSE, ReasonStatus(r.status), found)
        ELSE IF ~ChecksumCorrect(r) THEN Verdict(FALSE, ReasonHash, found)
        ELSE Verdict(TRUE, ReasonValid, found)

\* C9: verify_certificate_authenticity checks format, lookup, status and
\* checksum in this order, and the first check that fails decides the result.
C9_FirstFailingCheckDecides ==
    [][result' # result
          => result'.returned = {C9_Expected(result'.serial_number)}]_vars

----------------------------------------------------------------------------
(* validate_serial_number on strings around a valid serial *)

ExampleSerial == <<"2", "0", "2", "4", "-", "W", "D", "-", "0", "0", "0", "1", "-",
                   "A", "1", "B", "2", "C", "3">>

ReplacementChars == {"0", "9", "A", "F", "G", "Z", "a", "w", "-", " ", "\n", "U+0663"}

ValidateProbes ==
    LET bases == {ExampleSerial, GenuineA.serial_number}
    IN  bases
        \cup {Alter(s, pos, ch) : s \in bases, pos \in 1..19, ch \in ReplacementChars}
        \cup {s \o <<ch>> : s \in bases, ch \in ReplacementChars}
        \cup {<<ch>> \o s : s \in bases, ch \in ReplacementChars}
        \cup {SubSeq(s, 1, n) : s \in bases, n \in 0..18}
        \cup {SubSeq(s, n, 19) : s \in bases, n \in 2..19}
        \cup {Overflowed.serial_number}

InitValidate ==
    /\ certificates = {}
    /\ current_year = FirstYear
    /\ req = [p \in Callers |-> Idle("none", 0)]
    /\ result = NoResult
    /\ validation = NoValidation

NextValidate == \E s \in ValidateProbes : Validate(s)

SpecValidate == InitValidate /\ [][NextValidate]_vars

\* C10: validate_serial_number returns true exactly for the strings of the shape
\* YYYY-CC-NNNN-VVVVVV, and false with anything before or after it.
C10_ValidatesExactlyTheShape ==
    validation # NoValidation =>
        validation.returned = {HasSerialShape(validation.serial_number)}

====
